---- MODULE Spec2Model ----
(***************************************************************************)
(* Model of the obsidian-note-share worker (src/src/index.ts): the note    *)
(* store in the R2 bucket, the per-vault index and the HTTP handlers that  *)
(* publish, delete and view notes.  Every R2 operation a handler awaits is *)
(* one step: the operation takes effect, and the synchronous code up to    *)
(* the next await runs with it.                                            *)
(***************************************************************************)
EXTENDS Integers, Sequences, FiniteSets, TLC

VARIABLES
    bucket,      \* the R2 bucket env.NOTES: object key -> stored JSON value
    themeCache,  \* the in-memory theme cache: vault -> [theme, expires]
    req,         \* the requests being handled: slot -> handler state
    now,         \* the clock read by new Date() / Date.now()
    received,    \* the requests received so far: their number and vaults
    call,        \* a call of slugify or processInternalLinks under examination:
                 \* its arguments and its results so far
    sem,         \* a Semaphore of the plugin: its fields running and queue
    runs,        \* the calls of Semaphore.run: how many are at each position
    api,         \* the NoteShareAPI objects made so far, each with its
                 \* inFlightShares, and which of them is this.api
    fetches,     \* the calls of shareNote so far and the POSTs of /api/share
                 \* that are not settled
    timers,      \* the maps syncIntervals and syncTimeouts of the plugin and
                 \* the timers the runtime holds
    plugin,      \* the plugin: loaded or not, its clock, and the calls of
                 \* handleFileModify and autoSyncNote so far
    served,      \* the documents readers have received: view URL and note content
    tasks,       \* the tasks of one shareNote on its shared Semaphore: how many are at each position
    sync         \* the auto-syncs of one file: their runs, their POSTs, the content stored

\* the state of the worker
serverVars == <<bucket, themeCache, req, now, received>>

\* the state of the plugin objects
semVars == <<sem, runs>>

apiVars == <<api, fetches>>

timerVars == <<timers, plugin>>

readerVars == <<served>>

shareVars == <<tasks>>

syncVars == <<sync>>

\* the state outside the worker
pluginVars ==
    <<call, sem, runs, api, fetches, timers, plugin,
      served,
      tasks,
      sync>>

\* what a step of a pure function, of the Semaphore, of the API client and
\* of the auto-sync timers leave alone
offCall == <<serverVars, semVars, apiVars, timerVars, readerVars, shareVars, syncVars>>
offSem == <<serverVars, call, apiVars, timerVars, readerVars, shareVars, syncVars>>
offApi == <<serverVars, call, semVars, timerVars, readerVars, shareVars, syncVars>>
offTimers == <<serverVars, call, semVars, apiVars, readerVars, shareVars, syncVars>>
offReader == <<serverVars, call, semVars, apiVars, timerVars, shareVars, syncVars>>
offShare == <<serverVars, call, semVars, apiVars, timerVars, readerVars, syncVars>>
offSync == <<serverVars, call, semVars, apiVars, timerVars, readerVars, shareVars>>

vars ==
    <<bucket, themeCache, req, now, received, call, sem, runs, api, fetches,
      timers, plugin,
      served,
      tasks,
      sync>>

(***************************************************************************)
(* Bounds of the model.                                                    *)
(***************************************************************************)
MaxInFlight == 2    \* requests handled at the same time
MaxRequests == 2    \* requests received in one behaviour
MaxApiRequests == 3 \* requests received in one behaviour of SpecApi
MaxThemeRequests == 5 \* requests received in one behaviour of SpecTheme
MaxSweepRequests == 4 \* requests and sweeps in one behaviour of SpecSweep
MaxImageRequests == 5 \* requests and sweeps in one behaviour of SpecImages
MaxDays == 3        \* days that pass in one behaviour of SpecSweep
MaxLen == 3         \* characters of a text given to slugify in SpecSlug
MaxTokens == 5      \* pieces of a content given to processInternalLinks
MaxStopRequests == 3 \* requests received in one behaviour of SpecStop
MaxRuns == 22       \* calls of Semaphore.run in one behaviour of SpecSemaphore
MaxShareCalls == 4  \* calls of shareNote in one behaviour of SpecShares
MaxSaves == 2       \* calls of saveSettings in one behaviour of SpecShares
MaxModifies == 3    \* calls of handleFileModify in one behaviour of SpecTimers
MaxTicks == 5       \* half delays that pass in one behaviour of SpecTimers
MaxViewRequests == 4 \* requests received in one behaviour of SpecViews
MaxLinked == 20     \* linked notes of the note shared in SpecLinkedShare
MaxSweeps == 2      \* sweeps in one behaviour of SpecSweepLive
ListPage == 2       \* keys in one page of list, for the 1000 of R2

HASH_BYTES == 4
THEME_CACHE_TTL == 300000

(***************************************************************************)
(* Request inputs.  A title is the sequence of its characters.             *)
(***************************************************************************)
Vaults == {"v1", "v2"}
TitleAB == <<"A", " ", "b">>
TitleB == <<"B", "!">>
TitleDash == <<"a", "-", "b">>
Titles == {TitleAB, TitleB, TitleDash}
TitleBang == <<"!">>    \* a title without a letter or digit of a-z, 0-9
Contents == {"c1", "c2"}

RECURSIVE Join(_)
Join(s) == IF s = <<>> THEN "" ELSE Head(s) \o Join(Tail(s))

(***************************************************************************)
(* slugify: lower-case, every maximal run of characters outside [a-z0-9]   *)
(* becomes one hyphen, then a leading and a trailing hyphen are removed.   *)
(***************************************************************************)
toLowerCase(c) ==
    CASE c = "A" -> "a"
      [] c = "B" -> "b"
      [] OTHER -> c

IsAlnum(c) == c \in {"a", "b", "0", "9"}

RECURSIVE DropRun(_)
DropRun(s) ==
    IF s # <<>> /\ ~IsAlnum(Head(s)) THEN DropRun(Tail(s)) ELSE s

\* every character outside a-z0-9 becomes a hyphen of its own
ReplaceEach(s) == [i \in 1..Len(s) |-> IF IsAlnum(s[i]) THEN s[i] ELSE "-"]

RECURSIVE ReplaceRuns(_)
ReplaceRuns(s) ==
    IF s = <<>> THEN <<>>
    ELSE IF IsAlnum(Head(s)) THEN <<Head(s)>> \o ReplaceRuns(Tail(s))
    ELSE <<"-">> \o ReplaceRuns(DropRun(s))

StripEnds(s) ==
    LET a == IF s # <<>> /\ Head(s) = "-" THEN Tail(s) ELSE s
    IN  IF a # <<>> /\ a[Len(a)] = "-" THEN SubSeq(a, 1, Len(a) - 1) ELSE a

\* the characters of the slug
SlugChars(text) ==
    StripEnds(ReplaceRuns([i \in 1..Len(text) |-> toLowerCase(text[i])]))

slugify(text) == Join(SlugChars(text))

(***************************************************************************)
(* generateNoteHash: the first HASH_BYTES bytes of SHA-256("vault:title"), *)
(* written as lower-case hex.  Sha256 holds the leading bytes of the       *)
(* digests of the inputs of the model.                                     *)
(***************************************************************************)
Sha256(data) ==
    CASE data = "v1:A b" -> <<"88", "4e", "37", "13", "c0">>
      [] data = "v1:!"   -> <<"95", "8a", "47", "e5", "82">>
      [] data = "v1:B!"  -> <<"0a", "fa", "c5", "dc", "7c">>
      [] data = "v1:a-b" -> <<"e3", "c8", "d8", "f7", "b8">>
      [] data = "v2:A b" -> <<"f2", "56", "6e", "62", "6e">>
      [] data = "v2:B!"  -> <<"9b", "1f", "9d", "e9", "b9">>
      [] data = "v2:a-b" -> <<"83", "71", "27", "74", "d5">>

\* a hash salted with the time, as a random short id would be
generateHashSalted(vault, title) ==
    Join(SubSeq(Sha256(vault \o ":" \o Join(title)), 1, HASH_BYTES)) \o ToString(now)

generateNoteHash(vault, title) ==
    Join(SubSeq(Sha256(vault \o ":" \o Join(title)), 1, HASH_BYTES))

(***************************************************************************)
(* Object keys of the bucket.                                              *)
(***************************************************************************)
NoteKey(titleSlug, hash) == "notes/" \o titleSlug \o "-" \o hash \o ".json"
IndexKey(vault) == vault \o "/index.json"
ThemeKey(vault) == vault \o "/theme.json"

Origin == "https://share.example"

Put(b, key, value) ==
    [k \in DOMAIN b \cup {key} |-> IF k = key THEN value ELSE b[k]]

Delete(b, key) == [k \in DOMAIN b \ {key} |-> b[k]]

Has(b, key) == key \in DOMAIN b

(***************************************************************************)
(* addToIndex / removeFromIndex, the part between the get and the put of   *)
(* the index object.                                                       *)
(***************************************************************************)
SameEntry(n, titleSlug, hash) == n.titleSlug = titleSlug /\ n.hash = hash

RemoveEntry(notes, titleSlug, hash) ==
    SelectSeq(notes, LAMBDA n : ~SameEntry(n, titleSlug, hash))

\* unshift without the filter
AddEntryKeep(notes, note) == <<note>> \o notes

\* push instead of unshift
AddEntryLast(notes, note) ==
    RemoveEntry(notes, note.titleSlug, note.hash) \o <<note>>

AddEntry(notes, note) ==
    <<note>> \o RemoveEntry(notes, note.titleSlug, note.hash)

ReadIndex(b, vault) ==
    IF Has(b, IndexKey(vault)) THEN b[IndexKey(vault)] ELSE [notes |-> <<>>]

(***************************************************************************)
(* The clock.  Time passes between the steps of the handlers, and only the *)
(* order of the times read matters: a step that reads the clock (new       *)
(* Date()) reads the last time read or a later one.  The clock runs at     *)
(* most one tick ahead of the number of requests received.  In Spec all    *)
(* requests are handled within one tick of the clock (ticking = FALSE).    *)
(***************************************************************************)
ClockRead(ticking) ==
    {now} \cup (IF ticking /\ now <= received.n THEN {now + 1} ELSE {})

(***************************************************************************)
(* Request slots.  A slot is free when idle or when it still shows the     *)
(* response of a finished request.                                         *)
(***************************************************************************)
Slots == 1..MaxInFlight

Idle == [pc |-> "idle"]

Free(r) == req[r].pc \in {"idle", "done"}

InFlight == {r \in Slots : ~Free(r)}

\* lim is the load of a specification: how many requests it handles at a
\* time and in all, and the X-API-Key headers its /api requests carry
Load(inFlight, total, keys) == [inFlight |-> inFlight, total |-> total, keys |-> keys]

Accepts(r, lim) ==
    /\ received.n < lim.total
    /\ Cardinality(InFlight) < lim.inFlight
    /\ Free(r)
    /\ \A q \in Slots : Free(q) => r <= q

\* the API key middleware (index.ts 34-40): "" is an absent header
API_KEY == "secret"

NoKey == ""

Keys == {API_KEY, "wrong", NoKey}

\* any key passes
AnyKeyAccepted(apiKey) == TRUE

KeyAccepted(apiKey) == apiKey # NoKey /\ apiKey = API_KEY

Receive(vaults) == [n |-> received.n + 1, vaults |-> received.vaults \cup vaults]

Done(kind, in, resp) ==
    [pc |-> "done", kind |-> kind, in |-> in, resp |-> resp]

Json(status, body) == [status |-> status, body |-> body]

(***************************************************************************)
(* POST /api/share                                                         *)
(***************************************************************************)
\* linked notes of the requests
LinkedAB == [title |-> TitleAB, content |-> "c2"]
LinkedB1 == [title |-> TitleB, content |-> "c1"]
LinkedB2 == [title |-> TitleB, content |-> "c2"]
LinkedDash == [title |-> TitleDash, content |-> "c2"]

Body(vault, title, content, linkedNotes) ==
    [vault |-> vault, title |-> title, content |-> content,
     linkedNotes |-> linkedNotes, retentionDays |-> 0]

\* bodies that miss a required field
BadBodies ==
    {[title |-> TitleB, content |-> "c1"],
     [vault |-> "v1", title |-> <<>>, content |-> "c1"],
     [vault |-> "v1", title |-> TitleB]}

\* the share requests of SpecSeq: a note of v1 without linked notes, with
\* one, with two, with the same one twice and with itself as linked note;
\* re-publishes with other content, and a note of v2
SeqLinked ==
    {<<>>, <<LinkedB1>>, <<LinkedB1, LinkedDash>>, <<LinkedB1, LinkedB2>>, <<LinkedAB>>}

LinkedPositions == UNION {DOMAIN l : l \in SeqLinked}

SeqBodies ==
    {Body("v1", TitleAB, "c1", l) : l \in SeqLinked}
    \cup {Body("v1", t, "c2", <<>>) : t \in Titles}
    \cup {Body("v2", TitleAB, "c1", <<>>)}
    \cup BadBodies

\* the share requests of Spec: two notes of v1, one of them also with a
\* linked note
ConcBodies ==
    {Body("v1", TitleAB, "c1", <<>>), Body("v1", TitleB, "c1", <<>>),
     Body("v1", TitleAB, "c2", <<LinkedB2>>),
     [vault |-> "v1", title |-> TitleB]}

\* !body.vault || !body.title || body.content === undefined
Falsy(body, field, empty) ==
    IF field \in DOMAIN body THEN body[field] = empty ELSE TRUE

MissingFields(body) ==
    \/ Falsy(body, "vault", "")
    \/ Falsy(body, "title", <<>>)
    \/ "content" \notin DOMAIN body

IndexEntry(note) ==
    [titleSlug |-> note.titleSlug, hash |-> note.hash,
     title |-> note.title, createdAt |-> note.createdAt]

\* the StoredNote built for a linked note (index.ts 124-135)
LinkedStoredNote(vault, l, t) ==
    [vault |-> vault, titleSlug |-> l.titleSlug, hash |-> l.hash,
     title |-> l.linked.title, content |-> l.linked.content,
     createdAt |-> IF l.existingCreatedAt # 0 THEN l.existingCreatedAt ELSE t,
     updatedAt |-> t, linkedNotes |-> <<>>]

\* the primary note stamped with the time of the request as createdAt
MainStoredNoteStamped(q, createdAt, t) ==
    [vault |-> q.body.vault, titleSlug |-> q.titleSlug, hash |-> q.hash,
     title |-> q.body.title, content |-> q.body.content,
     createdAt |-> t, updatedAt |-> t,
     linkedNotes |-> q.linkedNotes, retentionDays |-> q.body.retentionDays]

\* the StoredNote built for the primary note (index.ts 164-174)
MainStoredNote(q, createdAt, t) ==
    [vault |-> q.body.vault, titleSlug |-> q.titleSlug, hash |-> q.hash,
     title |-> q.body.title, content |-> q.body.content,
     createdAt |-> createdAt, updatedAt |-> t,
     linkedNotes |-> q.linkedNotes, retentionDays |-> q.body.retentionDays]

ShareReject(r, lim, bodies) ==
    /\ Accepts(r, lim)
    /\ \E body \in bodies, key \in lim.keys :
        /\ KeyAccepted(key)
        /\ MissingFields(body)
        /\ req' = [req EXCEPT ![r] =
                      Done("share", body, Json(400, [error |-> "Missing required fields"]))]
        /\ received' = Receive({})
        /\ UNCHANGED <<bucket, themeCache, now>>
    /\ UNCHANGED pluginVars

ShareStart(r, lim, bodies, ticking) ==
    /\ Accepts(r, lim)
    /\ \E body \in bodies, t \in ClockRead(ticking), key \in lim.keys :
        /\ KeyAccepted(key)
        /\ ~MissingFields(body)
        /\ now' = t
        /\ LET n == Len(body.linkedNotes)
           IN req' = [req EXCEPT ![r] =
                [pc |-> IF n > 0 THEN "linkedGet" ELSE "mainGet",
                 kind |-> "share", key |-> key, body |-> body,
                 titleSlug |-> slugify(body.title),
                 hash |-> generateNoteHash(body.vault, body.title),
                 lk |-> [i \in 1..n |->
                           [pc |-> "get", linked |-> body.linkedNotes[i],
                            titleSlug |-> slugify(body.linkedNotes[i].title),
                            hash |-> generateNoteHash(body.vault, body.linkedNotes[i].title),
                            existingCreatedAt |-> 0, note |-> <<>>, index |-> <<>>]],
                 linkedNotes |-> <<>>,
                 createdAt |-> IF n > 0 THEN 0 ELSE t,
                 note |-> <<>>, index |-> <<>>,
                 t0 |-> t,
                 idx0 |-> ReadIndex(bucket, body.vault).notes]]
        /\ received' = Receive({body.vault})
        /\ UNCHANGED <<bucket, themeCache>>
    /\ UNCHANGED pluginVars

\* index.ts 111-119; when the last get returns, 123-140 run for every linked note
LinkedGet(r, i, ticking) ==
    /\ req[r].pc = "linkedGet"
    /\ i \in DOMAIN req[r].lk
    /\ req[r].lk[i].pc = "get"
    /\ \E t \in ClockRead(ticking) :
       LET q == req[r]
           key == NoteKey(q.lk[i].titleSlug, q.lk[i].hash)
           got == [q.lk EXCEPT ![i].pc = "got",
                               ![i].existingCreatedAt =
                                   IF Has(bucket, key) THEN bucket[key].createdAt ELSE 0]
           all == \A j \in DOMAIN got : got[j].pc = "got"
       IN /\ now' = IF all THEN t ELSE now
          /\ req' = [req EXCEPT ![r].pc = IF all THEN "linkedStore" ELSE "linkedGet",
                                ![r].lk = IF all
                                    THEN [j \in DOMAIN got |->
                                            [got[j] EXCEPT !.pc = "put",
                                               !.note = LinkedStoredNote(q.body.vault, got[j], t)]]
                                    ELSE got]
    /\ UNCHANGED <<bucket, themeCache, received>>
    /\ UNCHANGED pluginVars

\* index.ts 137-142 and the get of addToIndex
LinkedPut(r, i) ==
    /\ req[r].pc = "linkedStore"
    /\ i \in DOMAIN req[r].lk
    /\ req[r].lk[i].pc = "put"
    /\ LET l == req[r].lk[i]
       IN /\ bucket' = Put(bucket, NoteKey(l.titleSlug, l.hash), l.note)
          /\ req' = [req EXCEPT ![r].lk[i].pc = "idxGet",
                                ![r].linkedNotes =
                                    Append(@, [titleSlug |-> l.titleSlug, hash |-> l.hash])]
    /\ UNCHANGED <<themeCache, now, received>>
    /\ UNCHANGED pluginVars

LinkedIdxGet(r, i) ==
    /\ req[r].pc = "linkedStore"
    /\ i \in DOMAIN req[r].lk
    /\ req[r].lk[i].pc = "idxGet"
    /\ LET l == req[r].lk[i]
           index == ReadIndex(bucket, req[r].body.vault)
       IN req' = [req EXCEPT ![r].lk[i].pc = "idxPut",
                             ![r].lk[i].index =
                                 [index EXCEPT !.notes = AddEntry(@, IndexEntry(l.note))]]
    /\ UNCHANGED <<bucket, themeCache, now, received>>
    /\ UNCHANGED pluginVars

\* the primary note goes on as soon as one linked note is stored
FirstLinkedStored(lk, i) == TRUE

\* await Promise.all (index.ts 122-152): every other linked note is stored
\* and indexed
AllLinkedStored(lk, i) == \A j \in DOMAIN lk : j # i => lk[j].pc = "done"

\* when the last addToIndex returns, Promise.all resolves and index.ts 156-157 run
LinkedIdxPut(r, i, ticking) ==
    /\ req[r].pc = "linkedStore"
    /\ i \in DOMAIN req[r].lk
    /\ req[r].lk[i].pc = "idxPut"
    /\ \E t \in ClockRead(ticking) :
       LET q == req[r]
           all == AllLinkedStored(q.lk, i)
       IN /\ now' = IF all THEN t ELSE now
          /\ bucket' = Put(bucket, IndexKey(q.body.vault), q.lk[i].index)
          /\ req' = [req EXCEPT ![r].lk[i].pc = "done",
                                ![r].pc = IF all THEN "mainGet" ELSE "linkedStore",
                                ![r].createdAt = IF all THEN t ELSE 0]
    /\ UNCHANGED <<themeCache, received>>
    /\ UNCHANGED pluginVars

\* index.ts 157-174
MainGet(r, ticking) ==
    /\ req[r].pc = "mainGet"
    /\ \E t \in ClockRead(ticking) :
       LET q == req[r]
           key == NoteKey(q.titleSlug, q.hash)
           createdAt == IF Has(bucket, key) THEN bucket[key].createdAt ELSE q.createdAt
       IN /\ now' = t
          /\ req' = [req EXCEPT ![r].pc = "mainPut",
                                ![r].createdAt = createdAt,
                                ![r].note = MainStoredNote(q, createdAt, t)]
    /\ UNCHANGED <<bucket, themeCache, received>>
    /\ UNCHANGED pluginVars

\* the note is not stored before addToIndex runs
MainPutSkipped(r) ==
    /\ req[r].pc = "mainPut"
    /\ req' = [req EXCEPT ![r].pc = "mainIdxGet"]
    /\ UNCHANGED <<bucket, themeCache, now, received>>
    /\ UNCHANGED pluginVars

\* index.ts 177 and the get of addToIndex
MainPut(r) ==
    /\ req[r].pc = "mainPut"
    /\ bucket' = Put(bucket, NoteKey(req[r].titleSlug, req[r].hash), req[r].note)
    /\ req' = [req EXCEPT ![r].pc = "mainIdxGet"]
    /\ UNCHANGED <<themeCache, now, received>>
    /\ UNCHANGED pluginVars

MainIdxGet(r) ==
    /\ req[r].pc = "mainIdxGet"
    /\ LET index == ReadIndex(bucket, req[r].body.vault)
       IN req' = [req EXCEPT ![r].pc = "mainIdxPut",
                             ![r].index =
                                 [index EXCEPT !.notes = AddEntry(@, IndexEntry(req[r].note))]]
    /\ UNCHANGED <<bucket, themeCache, now, received>>
    /\ UNCHANGED pluginVars

ShareUrl(vault, titleSlug, hash) ==
    Origin \o "/g/" \o vault \o "/" \o titleSlug \o "/" \o hash

\* the put of addToIndex and index.ts 187-194
MainIdxPut(r) ==
    /\ req[r].pc = "mainIdxPut"
    /\ LET q == req[r]
       IN /\ bucket' = Put(bucket, IndexKey(q.body.vault), q.index)
          /\ req' = [req EXCEPT ![r] =
                 [pc |-> "done", kind |-> "share", in |-> q.body,
                  resp |-> Json(200, [url |-> ShareUrl(q.body.vault, q.titleSlug, q.hash),
                                      titleSlug |-> q.titleSlug, hash |-> q.hash]),
                  note |-> q.note, t0 |-> q.t0, idx0 |-> q.idx0]]
    /\ UNCHANGED <<themeCache, now, received>>
    /\ UNCHANGED pluginVars

(***************************************************************************)
(* DELETE /api/notes/:vault/:titleSlug/:hash                               *)
(***************************************************************************)
\* titleSlug and hash path parameters: those of "A b" in both vaults and of
\* "B!" and "a-b" in v1
UrlNotes ==
    {<<slugify(TitleAB), generateNoteHash(v, TitleAB)>> : v \in Vaults}
    \cup {<<slugify(t), generateNoteHash("v1", t)>> : t \in {TitleB, TitleDash}}

UrlParams == {[vault |-> v, titleSlug |-> n[1], hash |-> n[2]] : v \in Vaults, n \in UrlNotes}

\* the delete requests of Spec: the two notes of v1, one also through v2
ConcUrls ==
    {u \in UrlParams :
        /\ u.hash \in {generateNoteHash("v1", TitleAB), generateNoteHash("v1", TitleB)}
        /\ u.vault = "v2" => u.titleSlug = slugify(TitleAB)}

DeleteStart(r, lim, urls) ==
    /\ Accepts(r, lim)
    /\ \E in \in urls, key \in lim.keys :
        /\ KeyAccepted(key)
        /\ req' = [req EXCEPT ![r] =
                      [pc |-> "delNote", kind |-> "delete", key |-> key, in |-> in,
                       index |-> <<>>,
                       bucket0 |-> bucket]]
        /\ received' = Receive({in.vault})
        /\ UNCHANGED <<bucket, themeCache, now>>
    /\ UNCHANGED pluginVars

\* index.ts 230 and the get of removeFromIndex
DeleteNote(r) ==
    /\ req[r].pc = "delNote"
    /\ bucket' = Delete(bucket, NoteKey(req[r].in.titleSlug, req[r].in.hash))
    /\ req' = [req EXCEPT ![r].pc = "delIdxGet"]
    /\ UNCHANGED <<themeCache, now, received>>
    /\ UNCHANGED pluginVars

DeleteDone(q) ==
    [pc |-> "done", kind |-> "delete", in |-> q.in,
     resp |-> Json(200, [success |-> TRUE]), bucket0 |-> q.bucket0]

\* index.ts 359-365
DeleteIdxGet(r) ==
    /\ req[r].pc = "delIdxGet"
    /\ LET q == req[r]
           key == IndexKey(q.in.vault)
       IN IF ~Has(bucket, key)
          THEN req' = [req EXCEPT ![r] = DeleteDone(q)]
          ELSE req' = [req EXCEPT ![r].pc = "delIdxPut",
                                  ![r].index =
                                      [bucket[key] EXCEPT !.notes =
                                          RemoveEntry(@, q.in.titleSlug, q.in.hash)]]
    /\ UNCHANGED <<bucket, themeCache, now, received>>
    /\ UNCHANGED pluginVars

\* index.ts 367 and 235
DeleteIdxPut(r) ==
    /\ req[r].pc = "delIdxPut"
    /\ bucket' = Put(bucket, IndexKey(req[r].in.vault), req[r].index)
    /\ req' = [req EXCEPT ![r] = DeleteDone(req[r])]
    /\ UNCHANGED <<themeCache, now, received>>
    /\ UNCHANGED pluginVars

(***************************************************************************)
(* GET /g/:vault/:titleSlug/:hash                                          *)
(***************************************************************************)
render404 == "Note Not Found"

Html(status, body) == [status |-> status, body |-> body]

\* getTheme found no theme object
NoTheme == [undefined |-> TRUE]

\* render.ts 10-19
DEFAULT_THEME ==
    [backgroundPrimary |-> "#1e1e1e", backgroundSecondary |-> "#262626",
     textNormal |-> "#dcddde", textMuted |-> "#999", textAccent |-> "#7c3aed",
     interactiveAccent |-> "#7c3aed", codeBackground |-> "#2d2d2d", fontSize |-> 16]

\* render.ts 344-356 on the background colours of the model: the luminance
\* (0.299 r + 0.587 g + 0.114 b) / 255 of the hex colour is below 0.5
isColorDark(color) == color \in {"#1e1e1e", "#202020"}

\* the CSS variables generateStyles writes (render.ts 137-158)
generateStyles(t) ==
    [backgroundPrimary |-> t.backgroundPrimary,
     backgroundSecondary |-> t.backgroundSecondary,
     textNormal |-> t.textNormal, textMuted |-> t.textMuted,
     textAccent |-> t.textAccent, interactiveAccent |-> t.interactiveAccent,
     codeBackground |-> t.codeBackground,
     backgroundModifierBorder |->
         IF isColorDark(t.backgroundPrimary) THEN "#404040" ELSE "#e3e3e3",
     fontTextSize |-> t.fontSize]

\* const t = theme || DEFAULT_THEME (render.ts 22)
ThemeOrDefault(theme) == IF theme = NoTheme THEN DEFAULT_THEME ELSE theme

\* the document renderNote builds, by what it is built from
renderNote(note, theme, baseUrl) ==
    [title |-> note.title, content |-> note.content,
     linkedNotes |-> note.linkedNotes,
     styles |-> generateStyles(ThemeOrDefault(theme)), baseUrl |-> baseUrl]

\* isColorDark calls color.replace: a TypeError when the theme renderNote
\* gets has no backgroundPrimary (render.ts 139, 346)
RenderThrows(theme) == "backgroundPrimary" \notin DOMAIN ThemeOrDefault(theme)

CacheHit(vault) ==
    /\ vault \in DOMAIN themeCache
    /\ themeCache[vault].expires > now

ViewBaseUrl(vault) == Origin \o "/g/" \o vault

ViewStart(r, lim, urls) ==
    /\ Accepts(r, lim)
    /\ \E in \in urls :
        /\ req' = [req EXCEPT ![r] =
                      [pc |-> "viewGet", kind |-> "view", in |-> in, note |-> <<>>]]
        /\ received' = Receive({in.vault})
        /\ UNCHANGED <<bucket, themeCache, now>>
    /\ UNCHANGED pluginVars

\* no check of the vault
AnyVault(note, vault) == TRUE

\* index.ts 305
VaultMatches(note, vault) == note.vault = vault

\* index.ts 312-321, and the catch (322-325) when renderNote throws
ViewDone(q, note, theme) ==
    [pc |-> "done", kind |-> "view", in |-> q.in,
     resp |-> IF RenderThrows(theme)
              THEN Html(500, render404)
              ELSE Html(200, renderNote(note, theme, ViewBaseUrl(q.in.vault))),
     theme |-> theme]

\* index.ts 297-310 and getTheme 15-20
ViewGet(r) ==
    /\ req[r].pc = "viewGet"
    /\ LET q == req[r]
           key == NoteKey(q.in.titleSlug, q.in.hash)
       IN IF ~Has(bucket, key)
          THEN req' = [req EXCEPT ![r] = Done("view", q.in, Html(404, render404))]
          ELSE IF ~VaultMatches(bucket[key], q.in.vault)
          THEN req' = [req EXCEPT ![r] = Done("view", q.in, Html(404, render404))]
          ELSE IF CacheHit(q.in.vault)
          THEN req' = [req EXCEPT ![r] =
                         ViewDone(q, bucket[key], themeCache[q.in.vault].theme)]
          ELSE req' = [req EXCEPT ![r].pc = "viewTheme", ![r].note = bucket[key]]
    /\ UNCHANGED <<bucket, themeCache, now, received>>
    /\ UNCHANGED pluginVars

\* getTheme 20-21: the get of the theme object; without one the view is
\* rendered (index.ts 312-321), with one its json() is awaited
ViewTheme(r) ==
    /\ req[r].pc = "viewTheme"
    /\ LET q == req[r]
           key == ThemeKey(q.in.vault)
       IN IF Has(bucket, key)
          THEN req' = [req EXCEPT ![r] =
                         [pc |-> "viewThemeJson", kind |-> "view", in |-> q.in,
                          note |-> q.note, themeObj |-> bucket[key]]]
          ELSE req' = [req EXCEPT ![r] = ViewDone(q, q.note, NoTheme)]
    /\ UNCHANGED <<bucket, themeCache, now, received>>
    /\ UNCHANGED pluginVars

\* the cache keeps what it holds
CacheSetSkipped(cache, vault, theme, t) == cache

\* themeCache.set (index.ts 24)
CacheSet(cache, vault, theme, t) ==
    Put(cache, vault, [theme |-> theme, expires |-> t + THEME_CACHE_TTL])

\* getTheme 23-25 and index.ts 312-321
ViewThemeJson(r) ==
    /\ req[r].pc = "viewThemeJson"
    /\ LET q == req[r]
       IN /\ themeCache' = CacheSet(themeCache, q.in.vault, q.themeObj, now)
          /\ req' = [req EXCEPT ![r] = ViewDone(q, q.note, q.themeObj)]
    /\ UNCHANGED <<bucket, now, received>>
    /\ UNCHANGED pluginVars

(***************************************************************************)
(* The API key middleware on /api/* (index.ts 34-40): a request without    *)
(* the configured key is answered 401 before its handler runs.             *)
(***************************************************************************)
ApiRoutes ==
    {"GET /api/status", "PUT /api/theme", "POST /api/share", "GET /api/notes",
     "DELETE /api/notes/:vault/:titleSlug/:hash", "POST /api/images/:noteHash"}

Unauthorized(r, lim) ==
    /\ Accepts(r, lim)
    /\ \E route \in ApiRoutes, key \in lim.keys :
        /\ ~KeyAccepted(key)
        /\ req' = [req EXCEPT ![r] =
                      Done("api", [route |-> route, key |-> key],
                           Json(401, [error |-> "Unauthorized"]))]
        /\ received' = Receive({})
        /\ UNCHANGED <<bucket, themeCache, now>>
    /\ UNCHANGED pluginVars

(***************************************************************************)
(* PUT /api/theme                                                          *)
(***************************************************************************)
\* ThemeSettings values
ThemeA ==
    [backgroundPrimary |-> "#ffffff", backgroundSecondary |-> "#f2f3f5",
     textNormal |-> "#2e3338", textMuted |-> "#888888", textAccent |-> "#705dcf",
     interactiveAccent |-> "#7b6cd9", codeBackground |-> "#fafafa", fontSize |-> 16]

ThemeB ==
    [backgroundPrimary |-> "#202020", backgroundSecondary |-> "#161616",
     textNormal |-> "#dadada", textMuted |-> "#999999", textAccent |-> "#a68af9",
     interactiveAccent |-> "#8a5cf5", codeBackground |-> "#2a2a2a", fontSize |-> 18]

Modes == {"light", "dark"}

ThemeBody(vault, theme, mode) == [vault |-> vault, theme |-> theme, mode |-> mode]

\* bodies that miss a required field
BadThemeBodies ==
    {[theme |-> ThemeA, mode |-> "light"],
     [vault |-> "v1", mode |-> "dark"],
     [vault |-> "v1", theme |-> ThemeB]}

ThemeBodies ==
    {ThemeBody("v1", t, m) : t \in {ThemeA, ThemeB}, m \in Modes} \cup BadThemeBodies

\* the check without the mode
MissingThemeFieldsNoMode(body) ==
    \/ Falsy(body, "vault", "")
    \/ "theme" \notin DOMAIN body

\* !body.vault || !body.theme || !body.mode
MissingThemeFields(body) ==
    \/ Falsy(body, "vault", "")
    \/ "theme" \notin DOMAIN body
    \/ Falsy(body, "mode", "")

ThemeReject(r, lim, bodies) ==
    /\ Accepts(r, lim)
    /\ \E body \in bodies, key \in lim.keys :
        /\ KeyAccepted(key)
        /\ MissingThemeFields(body)
        /\ req' = [req EXCEPT ![r] =
                      Done("theme", body, Json(400, [error |-> "Missing vault, theme, or mode"]))]
        /\ received' = Receive({})
        /\ UNCHANGED <<bucket, themeCache, now>>
    /\ UNCHANGED pluginVars

ThemeStart(r, lim, bodies) ==
    /\ Accepts(r, lim)
    /\ \E body \in bodies, key \in lim.keys :
        /\ KeyAccepted(key)
        /\ ~MissingThemeFields(body)
        /\ req' = [req EXCEPT ![r] =
                      [pc |-> "themeGet", kind |-> "theme", key |-> key, in |-> body,
                       dualTheme |-> <<>>, bucket0 |-> bucket]]
        /\ received' = Receive({body.vault})
        /\ UNCHANGED <<bucket, themeCache, now>>
    /\ UNCHANGED pluginVars

\* the whole record replaced by the slot written
ReplaceTheme(dualTheme, mode, theme, t) ==
    Put(Put(<<>>, mode, theme), "updatedAt", t)

\* index.ts 80-81: body.mode is the key when the body has one, undefined
\* otherwise
MergeTheme(dualTheme, mode, theme, t) ==
    Put(Put(dualTheme, mode, theme), "updatedAt", t)

ModeOf(body) == IF "mode" \in DOMAIN body THEN body.mode ELSE "undefined"

\* index.ts 74-81
ThemeGet(r, ticking) ==
    /\ req[r].pc = "themeGet"
    /\ \E t \in ClockRead(ticking) :
       LET q == req[r]
           key == ThemeKey(q.in.vault)
           existing == IF Has(bucket, key) THEN bucket[key] ELSE <<>>
       IN /\ now' = t
          /\ req' = [req EXCEPT ![r].pc = "themePut",
                                ![r].dualTheme =
                                    MergeTheme(existing, ModeOf(q.in), q.in.theme, t)]
    /\ UNCHANGED <<bucket, themeCache, received>>
    /\ UNCHANGED pluginVars

\* index.ts 83-88
ThemePut(r) ==
    /\ req[r].pc = "themePut"
    /\ LET q == req[r]
       IN /\ bucket' = Put(bucket, ThemeKey(q.in.vault), q.dualTheme)
          /\ themeCache' = Delete(themeCache, q.in.vault)
          /\ req' = [req EXCEPT ![r] =
                 [pc |-> "done", kind |-> "theme", in |-> q.in,
                  resp |-> Json(200, [success |-> TRUE]),
                  dualTheme |-> q.dualTheme, bucket0 |-> q.bucket0]]
    /\ UNCHANGED <<now, received>>
    /\ UNCHANGED pluginVars

(***************************************************************************)
(* GET /api/notes?vault=                                                   *)
(***************************************************************************)
\* the vault query parameter; "" when the request has none
ListQueries == Vaults \cup {""}

ListReject(r, lim) ==
    /\ Accepts(r, lim)
    /\ \E vault \in ListQueries, key \in lim.keys :
        /\ KeyAccepted(key)
        /\ vault = ""
        /\ req' = [req EXCEPT ![r] =
                      Done("list", [vault |-> vault],
                           Json(400, [error |-> "Missing vault parameter"]))]
        /\ received' = Receive({})
        /\ UNCHANGED <<bucket, themeCache, now>>
    /\ UNCHANGED pluginVars

ListStart(r, lim) ==
    /\ Accepts(r, lim)
    /\ \E vault \in ListQueries, key \in lim.keys :
        /\ KeyAccepted(key)
        /\ vault # ""
        /\ req' = [req EXCEPT ![r] =
                      [pc |-> "listGet", kind |-> "list", key |-> key,
                       in |-> [vault |-> vault]]]
        /\ received' = Receive({vault})
        /\ UNCHANGED <<bucket, themeCache, now>>
    /\ UNCHANGED pluginVars

\* index.ts 209-215
ListGet(r) ==
    /\ req[r].pc = "listGet"
    /\ LET q == req[r]
           key == IndexKey(q.in.vault)
       IN req' = [req EXCEPT ![r] =
              Done("list", q.in,
                   Json(200, IF Has(bucket, key) THEN bucket[key].notes ELSE <<>>))]
    /\ UNCHANGED <<bucket, themeCache, now, received>>
    /\ UNCHANGED pluginVars

(***************************************************************************)
(* POST /api/images/:noteHash and GET /i/:noteHash/:filename               *)
(***************************************************************************)
ImageKey(noteHash, filename) == "images/" \o noteHash \o "/" \o filename

Filenames == {"a.png", "b.png", "c.png"}

\* images of the note "B!" of v1
ImageParams ==
    {[noteHash |-> generateNoteHash("v1", TitleB), filename |-> f] : f \in Filenames}

ImageStart(r, lim, images) ==
    /\ Accepts(r, lim)
    /\ \E in \in images, key \in lim.keys :
        /\ KeyAccepted(key)
        /\ req' = [req EXCEPT ![r] =
                      [pc |-> "imagePut", kind |-> "image", key |-> key, in |-> in]]
        /\ received' = Receive({})
        /\ UNCHANGED <<bucket, themeCache, now>>
    /\ UNCHANGED pluginVars

\* index.ts 252-260
ImagePut(r) ==
    /\ req[r].pc = "imagePut"
    /\ LET q == req[r]
           key == ImageKey(q.in.noteHash, q.in.filename)
       IN /\ bucket' = Put(bucket, key, [contentType |-> "image/png", body |-> q.in.filename])
          /\ req' = [req EXCEPT ![r] =
                 Done("image", q.in,
                      Json(200, [url |-> Origin \o "/i/" \o q.in.noteHash \o "/" \o q.in.filename,
                                 key |-> key]))]
    /\ UNCHANGED <<themeCache, now, received>>
    /\ UNCHANGED pluginVars

ServeStart(r, lim, images) ==
    /\ Accepts(r, lim)
    /\ \E in \in images :
        /\ req' = [req EXCEPT ![r] = [pc |-> "serveGet", kind |-> "serve", in |-> in]]
        /\ received' = Receive({})
        /\ UNCHANGED <<bucket, themeCache, now>>
    /\ UNCHANGED pluginVars

\* index.ts 273-282
ServeGet(r) ==
    /\ req[r].pc = "serveGet"
    /\ LET q == req[r]
           key == ImageKey(q.in.noteHash, q.in.filename)
       IN req' = [req EXCEPT ![r] =
              Done("serve", q.in,
                   IF Has(bucket, key)
                   THEN [status |-> 200, body |-> bucket[key].body]
                   ELSE [status |-> 404, body |-> "Not found"])]
    /\ UNCHANGED <<bucket, themeCache, now, received>>
    /\ UNCHANGED pluginVars

(***************************************************************************)
(* GET /api/status                                                         *)
(***************************************************************************)
StatusStart(r, lim) ==
    /\ Accepts(r, lim)
    /\ \E key \in lim.keys :
        /\ KeyAccepted(key)
        /\ req' = [req EXCEPT ![r] =
                      [pc |-> "statusList", kind |-> "status", key |-> key, in |-> <<>>]]
        /\ received' = Receive({})
        /\ UNCHANGED <<bucket, themeCache, now>>
    /\ UNCHANGED pluginVars

\* index.ts 46-51
StatusList(r) ==
    /\ req[r].pc = "statusList"
    /\ req' = [req EXCEPT ![r] =
                  Done("status", <<>>, Json(200, [status |-> "ok", r2 |-> TRUE]))]
    /\ UNCHANGED <<bucket, themeCache, now, received>>
    /\ UNCHANGED pluginVars

(***************************************************************************)
(* Faults of the object store.  A request at one of these positions awaits *)
(* one store operation; when the operation throws, it has no effect and    *)
(* the catch of the handler answers.  Faults during the parallel phase of  *)
(* the linked notes are not modelled.                                      *)
(***************************************************************************)
FaultPcs ==
    {"statusList", "themeGet", "themePut", "mainGet", "mainPut", "mainIdxGet",
     "mainIdxPut", "listGet", "delNote", "delIdxGet", "delIdxPut", "imagePut",
     "serveGet", "viewGet", "viewTheme"}

\* the handler goes on as if the operation had found nothing
FaultSwallowed(kind) == Json(200, [success |-> TRUE])

\* the catch blocks of the handlers
FaultResponse(kind) ==
    CASE kind = "status" -> Json(500, [status |-> "error", r2 |-> FALSE])
      [] kind = "theme"  -> Json(500, [error |-> "Failed to sync theme"])
      [] kind = "share"  -> Json(500, [error |-> "Failed to share note"])
      [] kind = "list"   -> Json(500, [error |-> "Failed to list notes"])
      [] kind = "delete" -> Json(500, [error |-> "Failed to delete note"])
      [] kind = "image"  -> Json(500, [error |-> "Failed to upload image"])
      [] kind = "serve"  -> [status |-> 500, body |-> "Error"]
      [] kind = "view"   -> Html(500, render404)

StoreFault(r) ==
    /\ req[r].pc \in FaultPcs
    /\ LET q == req[r]
           in == IF q.kind = "share" THEN q.body ELSE q.in
       IN req' = [req EXCEPT ![r] =
              [pc |-> "done", kind |-> q.kind, in |-> in,
               resp |-> FaultResponse(q.kind), fault |-> q.pc]]
    /\ UNCHANGED <<bucket, themeCache, now, received>>
    /\ UNCHANGED pluginVars

(***************************************************************************)
(* A publish that stops during the parallel phase of its linked notes      *)
(* (index.ts 111-152), and a Worker that stops during a publish.  When one *)
(* of the operations of Promise.all throws, the catch answers 500 (195-    *)
(* 198); the chains of the other linked notes are not cancelled and go on  *)
(* until the runtime ends the request.                                     *)
(***************************************************************************)
LinkedFaultName(pc) ==
    CASE pc = "get" -> "linkedGet"
      [] pc = "put" -> "linkedPut"
      [] pc = "idxGet" -> "linkedIdxGet"
      [] pc = "idxPut" -> "linkedIdxPut"

\* the operation chain i awaits throws
LinkedFault(r, i) ==
    /\ req[r].pc \in {"linkedGet", "linkedStore"}
    /\ i \in DOMAIN req[r].lk
    /\ req[r].lk[i].pc \in {"get", "put", "idxGet", "idxPut"}
    /\ LET q == req[r]
           name == LinkedFaultName(q.lk[i].pc)
       IN req' = [req EXCEPT ![r] =
              IF q.pc = "linkedGet"
              THEN [pc |-> "done", kind |-> "share", in |-> q.body,
                    resp |-> FaultResponse("share"), fault |-> name]
              ELSE [pc |-> "linkedAbandoned", kind |-> "share", body |-> q.body,
                    lk |-> [q.lk EXCEPT ![i].pc = "failed"],
                    resp |-> FaultResponse("share"), fault |-> name]]
    /\ UNCHANGED <<bucket, themeCache, now, received>>
    /\ UNCHANGED pluginVars

\* a chain of another linked note goes on by one operation: the put of the
\* note (137-140), the get or the put of addToIndex (145-150)
AbandonedStep(r, i) ==
    /\ req[r].pc = "linkedAbandoned"
    /\ i \in DOMAIN req[r].lk
    /\ req[r].lk[i].pc \in {"put", "idxGet", "idxPut"}
    /\ LET q == req[r]
           l == q.lk[i]
           index == ReadIndex(bucket, q.body.vault)
       IN CASE l.pc = "put" ->
                 /\ bucket' = Put(bucket, NoteKey(l.titleSlug, l.hash), l.note)
                 /\ req' = [req EXCEPT ![r].lk[i].pc = "idxGet"]
            [] l.pc = "idxGet" ->
                 /\ bucket' = bucket
                 /\ req' = [req EXCEPT ![r].lk[i].pc = "idxPut",
                                       ![r].lk[i].index =
                                           [index EXCEPT !.notes = AddEntry(@, IndexEntry(l.note))]]
            [] l.pc = "idxPut" ->
                 /\ bucket' = Put(bucket, IndexKey(q.body.vault), l.index)
                 /\ req' = [req EXCEPT ![r].lk[i].pc = "done"]
    /\ UNCHANGED <<themeCache, now, received>>
    /\ UNCHANGED pluginVars

\* the runtime ends the request; what the chains had not done stays undone
AbandonedEnd(r) ==
    /\ req[r].pc = "linkedAbandoned"
    /\ req' = [req EXCEPT ![r] =
          [pc |-> "done", kind |-> "share", in |-> req[r].body,
           resp |-> req[r].resp, fault |-> req[r].fault]]
    /\ UNCHANGED <<bucket, themeCache, now, received>>
    /\ UNCHANGED pluginVars

SharePcs ==
    {"linkedGet", "linkedStore", "linkedAbandoned", "mainGet", "mainPut",
     "mainIdxGet", "mainIdxPut"}

NoResponse == [status |-> 0, body |-> "no response"]

\* the Worker stops between two operations of a publish
WorkerStops(r) ==
    /\ req[r].pc \in SharePcs
    /\ req' = [req EXCEPT ![r] =
          [pc |-> "done", kind |-> "share", in |-> req[r].body,
           resp |-> NoResponse, crash |-> req[r].pc]]
    /\ UNCHANGED <<bucket, themeCache, now, received>>
    /\ UNCHANGED pluginVars

(***************************************************************************)
(* The scheduled retention sweep, cleanupExpiredNotes (index.ts 414-453).  *)
(* It runs in a slot like a request.                                       *)
(***************************************************************************)
\* every key the model stores under notes/ and images/, in the
\* lexicographic order in which list returns keys
KeyOrder ==
    <<ImageKey("0afac5dc", "a.png"), ImageKey("0afac5dc", "b.png"),
      ImageKey("0afac5dc", "c.png"),
      NoteKey("a-b", "884e3713"), NoteKey("a-b", "e3c8d8f7"),
      NoteKey("a-b", "f2566e62"), NoteKey("b", "0afac5dc")>>

NotesPrefix == "notes/"

ImagesPrefix(hash) == "images/" \o hash \o "/"

\* the keys that start with the prefix
PrefixKeys(prefix) ==
    IF prefix = NotesPrefix
    THEN {NoteKey(n[1], n[2]) : n \in UrlNotes}
    ELSE {ImageKey(i.noteHash, i.filename) :
              i \in {j \in ImageParams : ImagesPrefix(j.noteHash) = prefix}}

\* the positions in KeyOrder of the stored keys with the prefix, after the
\* cursor
Matching(b, prefix, cursor) ==
    {i \in DOMAIN KeyOrder :
        i > cursor /\ Has(b, KeyOrder[i]) /\ KeyOrder[i] \in PrefixKeys(prefix)}

RECURSIVE Ascending(_)
Ascending(S) ==
    IF S = {} THEN <<>>
    ELSE LET m == CHOOSE i \in S : \A j \in S : i <= j
         IN <<m>> \o Ascending(S \ {m})

\* env.NOTES.list({prefix, cursor}): at most ListPage keys, truncated when
\* more are left, the cursor after the last key returned
ListObjects(b, prefix, cursor) ==
    LET all == Ascending(Matching(b, prefix, cursor))
        n == IF Len(all) < ListPage THEN Len(all) ELSE ListPage
    IN [objects |-> [i \in 1..n |-> KeyOrder[all[i]]],
        truncated |-> Len(all) > n,
        cursor |-> IF Len(all) > n THEN all[n] ELSE 0]

DAY_MS == 86400000

\* expired from the instant of the expiry on
ExpiredAtExpiry(note, t) ==
    /\ "retentionDays" \in DOMAIN note
    /\ note.retentionDays > 0
    /\ t >= (IF "updatedAt" \in DOMAIN note THEN note.updatedAt ELSE note.createdAt)
            + note.retentionDays * DAY_MS

\* index.ts 429-435
Expired(note, t) ==
    /\ "retentionDays" \in DOMAIN note
    /\ note.retentionDays > 0
    /\ t > (IF "updatedAt" \in DOMAIN note THEN note.updatedAt ELSE note.createdAt)
           + note.retentionDays * DAY_MS

\* a day passes while no request is handled
TimePasses ==
    /\ InFlight = {}
    /\ now + DAY_MS <= MaxDays * DAY_MS + 1
    /\ now' = now + DAY_MS
    /\ UNCHANGED <<bucket, themeCache, req, received>>
    /\ UNCHANGED pluginVars

\* index.ts 415-420
SweepStart(r, lim) ==
    /\ Accepts(r, lim)
    /\ req' = [req EXCEPT ![r] =
                  [pc |-> "sweepList", kind |-> "sweep", t |-> now, cursor |-> 0,
                   page |-> <<>>, truncated |-> FALSE, note |-> <<>>,
                   par |-> <<>>, index |-> <<>>, deleted |-> {}, inspected |-> {}]]
    /\ received' = Receive({})
    /\ UNCHANGED <<bucket, themeCache, now>>
    /\ UNCHANGED pluginVars

SweepDone(q) ==
    [pc |-> "done", kind |-> "sweep", t |-> q.t, deleted |-> q.deleted,
     inspected |-> q.inspected, failed |-> FALSE]

\* the sweep ends after its first page
SweepNextOnePage(q) ==
    IF Len(q.page) > 1
    THEN [q EXCEPT !.pc = "sweepGet", !.page = Tail(q.page)]
    ELSE SweepDone(q)

\* the for loop and the do-while (index.ts 422, 449-450) after the object
\* at the head of the page
SweepNext(q) ==
    IF Len(q.page) > 1
    THEN [q EXCEPT !.pc = "sweepGet", !.page = Tail(q.page)]
    ELSE IF q.truncated
    THEN [q EXCEPT !.pc = "sweepList", !.page = <<>>]
    ELSE SweepDone(q)

\* index.ts 420
SweepList(r) ==
    /\ req[r].pc = "sweepList"
    /\ LET q == req[r]
           l == ListObjects(bucket, NotesPrefix, q.cursor)
       IN req' = [req EXCEPT ![r] =
              IF l.objects = <<>>
              THEN SweepDone(q)
              ELSE [q EXCEPT !.pc = "sweepGet", !.page = l.objects,
                             !.truncated = l.truncated, !.cursor = l.cursor]]
    /\ UNCHANGED <<bucket, themeCache, now, received>>
    /\ UNCHANGED pluginVars

\* index.ts 423-437
SweepGet(r) ==
    /\ req[r].pc = "sweepGet"
    /\ LET key == Head(req[r].page)
           q == [req[r] EXCEPT !.inspected = @ \cup {key}]
       IN req' = [req EXCEPT ![r] =
              IF ~Has(bucket, key) THEN SweepNext(q)
              ELSE IF ~Expired(bucket[key], q.t) THEN SweepNext(q)
              ELSE [q EXCEPT !.pc = "sweepListImages", !.note = bucket[key]]]
    /\ UNCHANGED <<bucket, themeCache, now, received>>
    /\ UNCHANGED pluginVars

\* index.ts 437-442: the list of the images, then the operations of the
\* Promise.all start
SweepListImages(r) ==
    /\ req[r].pc = "sweepListImages"
    /\ LET q == req[r]
           l == ListObjects(bucket, ImagesPrefix(q.note.hash), 0)
       IN req' = [req EXCEPT ![r].pc = "sweepDelete",
                             ![r].par = [note |-> "delete",
                                         images |-> {l.objects[i] : i \in DOMAIN l.objects},
                                         index |-> "get"]]
    /\ UNCHANGED <<bucket, themeCache, now, received>>
    /\ UNCHANGED pluginVars

\* the Promise.all resolves when its last operation completes (index.ts 444-445)
SweepJoin(q) ==
    IF q.par.note = "done" /\ q.par.images = {} /\ q.par.index = "done"
    THEN SweepNext([q EXCEPT !.deleted = @ \cup {Head(q.page)}])
    ELSE q

\* index.ts 439
SweepDeleteNote(r) ==
    /\ req[r].pc = "sweepDelete"
    /\ req[r].par.note = "delete"
    /\ bucket' = Delete(bucket, Head(req[r].page))
    /\ req' = [req EXCEPT ![r] = SweepJoin([req[r] EXCEPT !.par.note = "done"])]
    /\ UNCHANGED <<themeCache, now, received>>
    /\ UNCHANGED pluginVars

\* index.ts 440
SweepDeleteImage(r, img) ==
    /\ req[r].pc = "sweepDelete"
    /\ img \in req[r].par.images
    /\ bucket' = Delete(bucket, img)
    /\ req' = [req EXCEPT ![r] = SweepJoin([req[r] EXCEPT !.par.images = @ \ {img}])]
    /\ UNCHANGED <<themeCache, now, received>>
    /\ UNCHANGED pluginVars

\* index.ts 441, removeFromIndex 359-365
SweepIdxGet(r) ==
    /\ req[r].pc = "sweepDelete"
    /\ req[r].par.index = "get"
    /\ LET q == req[r]
           key == IndexKey(q.note.vault)
       IN req' = [req EXCEPT ![r] =
              IF ~Has(bucket, key)
              THEN SweepJoin([q EXCEPT !.par.index = "done"])
              ELSE [q EXCEPT !.par.index = "put",
                             !.index = [bucket[key] EXCEPT !.notes =
                                           RemoveEntry(@, q.note.titleSlug, q.note.hash)]]]
    /\ UNCHANGED <<bucket, themeCache, now, received>>
    /\ UNCHANGED pluginVars

\* removeFromIndex 367
SweepIdxPut(r) ==
    /\ req[r].pc = "sweepDelete"
    /\ req[r].par.index = "put"
    /\ bucket' = Put(bucket, IndexKey(req[r].note.vault), req[r].index)
    /\ req' = [req EXCEPT ![r] = SweepJoin([req[r] EXCEPT !.par.index = "done"])]
    /\ UNCHANGED <<themeCache, now, received>>
    /\ UNCHANGED pluginVars

\* no try in cleanupExpiredNotes or scheduled (index.ts 414-462): an
\* operation that throws ends the sweep at the note it was handling
SweepFaultEnds(q) ==
    [pc |-> "done", kind |-> "sweep", t |-> q.t, deleted |-> q.deleted,
     inspected |-> q.inspected, failed |-> TRUE, fault |-> q.pc,
     at |-> IF q.page = <<>> THEN "" ELSE Head(q.page)]

\* the deletes of the Promise.all that have not completed
PendingDeletes(q) ==
    (IF q.par.note = "delete" THEN {Head(q.page)} ELSE {}) \cup q.par.images

\* the index after the removal that has not completed
PendingIndex(b, q) ==
    IF q.par.index = "put" THEN q.index
    ELSE [ReadIndex(b, q.note.vault) EXCEPT !.notes =
              RemoveEntry(@, q.note.titleSlug, q.note.hash)]

\* a store operation of the sweep throws before the Promise.all
SweepFault(r) ==
    /\ req[r].pc \in {"sweepList", "sweepGet", "sweepListImages"}
    /\ req' = [req EXCEPT ![r] = SweepFaultEnds(req[r])]
    /\ UNCHANGED <<bucket, themeCache, now, received>>
    /\ UNCHANGED pluginVars

\* an operation of the Promise.all throws (index.ts 438-442): the sweep
\* ends, and each of the other operations, already started, completes or
\* not
SweepDeleteFault(r) ==
    /\ req[r].pc = "sweepDelete"
    /\ LET q == req[r]
           pending == PendingDeletes(q)
           indexPending == q.par.index # "done"
       IN \E gone \in SUBSET pending, indexed \in BOOLEAN :
            /\ indexed => indexPending
            /\ gone # pending \/ (indexPending /\ ~indexed)
            /\ bucket' =
                 LET b == [k \in DOMAIN bucket \ gone |-> bucket[k]]
                 IN IF indexed /\ (q.par.index = "put" \/ Has(bucket, IndexKey(q.note.vault)))
                    THEN Put(b, IndexKey(q.note.vault), PendingIndex(bucket, q))
                    ELSE b
            /\ req' = [req EXCEPT ![r] = SweepFaultEnds(q)]
    /\ UNCHANGED <<themeCache, now, received>>
    /\ UNCHANGED pluginVars

(***************************************************************************)
(* The plugin's link (main.ts 293-300, 369-382) and the view of it.        *)
(***************************************************************************)
\* main.ts 369-374
pluginSlugify(text) ==
    Join(StripEnds(ReplaceRuns([i \in 1..Len(text) |-> toLowerCase(text[i])])))

\* main.ts 376-382
computeNoteHash(vault, title) ==
    Join(SubSeq(Sha256(vault \o ":" \o Join(title)), 1, HASH_BYTES))

\* settings.serverUrl, the origin of the worker
serverUrl == Origin

\* the link copied to the clipboard before any request (main.ts 295-303)
ClipboardUrl(vault, title) ==
    serverUrl \o "/g/" \o vault \o "/" \o pluginSlugify(title)
              \o "/" \o computeNoteHash(vault, title)

UrlTitles == {TitleB, TitleAB, TitleBang}

UrlBodies == {Body("v1", t, "c1", <<>>) : t \in UrlTitles}

ClipboardUrls == {ClipboardUrl(b.vault, b.title) : b \in UrlBodies}

\* what a parameter of the route can hold: a path segment is not empty
Segments ==
    (Vaults \cup {slugify(t) : t \in UrlTitles}
            \cup {generateNoteHash("v1", t) : t \in UrlTitles}) \ {""}

\* the parameters with which the route /g/:vault/:titleSlug/:hash
\* (index.ts 291) matches the URL: none, or one
RouteParams(url) ==
    {[vault |-> x[1], titleSlug |-> x[2], hash |-> x[3], url |-> url] :
        x \in {y \in Segments \X Segments \X Segments :
                  Origin \o "/g/" \o y[1] \o "/" \o y[2] \o "/" \o y[3] = url}}

NotFound == [status |-> 404, body |-> "404 Not Found"]

\* a GET of the URL: the view handler runs if the route matches
ViewUrlStart(r, lim, urls) ==
    /\ Accepts(r, lim)
    /\ \E url \in urls :
        /\ req' = [req EXCEPT ![r] =
                      IF RouteParams(url) = {}
                      THEN Done("view", [url |-> url], NotFound)
                      ELSE [pc |-> "viewGet", kind |-> "view",
                            in |-> CHOOSE in \in RouteParams(url) : TRUE,
                            note |-> <<>>]]
        /\ received' = Receive({})
        /\ UNCHANGED <<bucket, themeCache, now>>
    /\ UNCHANGED pluginVars

(***************************************************************************)
(* processInternalLinks (render.ts 108-126) on a content of characters.    *)
(* The result is the sequence of the pieces of the returned string: a      *)
(* character kept, or the replacement of a match with the text it          *)
(* replaces.                                                               *)
(***************************************************************************)
\* the number of characters from position i on that are not in stop
RECURSIVE Run(_, _, _)
Run(s, i, stop) ==
    IF i > Len(s) \/ s[i] \in stop THEN 0 ELSE 1 + Run(s, i + 1, stop)

ClosesAt(s, j) == j + 1 <= Len(s) /\ s[j] = "]" /\ s[j + 1] = "]"

NoMatch == [end |-> 0]

\* the match of /\[\[([^\]|]+)(?:\|([^\]]+))?\]\]/ that starts at position i
MatchAt(s, i) ==
    IF ~(i + 1 <= Len(s) /\ s[i] = "[" /\ s[i + 1] = "[") THEN NoMatch
    ELSE LET n == Run(s, i + 2, {"]", "|"})
             j == i + 2 + n
             m == Run(s, j + 1, {"]"})
             k == j + 1 + m
         IN IF n = 0 THEN NoMatch
            ELSE IF ClosesAt(s, j)
            THEN [end |-> j + 1, link |-> SubSeq(s, i + 2, j - 1), display |-> <<>>]
            ELSE IF j <= Len(s) /\ s[j] = "|" /\ m > 0 /\ ClosesAt(s, k)
            THEN [end |-> k + 1, link |-> SubSeq(s, i + 2, j - 1),
                  display |-> SubSeq(s, j + 1, k - 1)]
            ELSE NoMatch

\* render.ts 128-135
escapeHtml(text) ==
    LET esc(c) == CASE c = "&" -> <<"&", "a", "m", "p", ";">>
                    [] c = "<" -> <<"&", "l", "t", ";">>
                    [] c = ">" -> <<"&", "g", "t", ";">>
                    [] OTHER -> <<c>>
        F[i \in 0..Len(text)] == IF i = 0 THEN <<>> ELSE F[i - 1] \o esc(text[i])
    IN F[Len(text)]

\* the first entry of the list, whatever its titleSlug
FindFirst(linkedNotes, slug) == IF linkedNotes = <<>> THEN 0 ELSE 1

\* linkedNotes.find(n => n.titleSlug === slug): the position of the first
\* such entry, 0 for undefined
FindLinked(linkedNotes, slug) ==
    LET found == {i \in DOMAIN linkedNotes : linkedNotes[i].titleSlug = slug}
    IN IF found = {} THEN 0 ELSE CHOOSE i \in found : \A j \in found : i <= j

\* the callback of the replace (render.ts 113-125)
ReplaceLink(match, m, baseUrl, linkedNotes) ==
    LET slug == Join(StripEnds(ReplaceRuns(
                    [i \in 1..Len(m.link) |-> toLowerCase(m.link[i])])))
        text == IF m.display # <<>> THEN m.display ELSE m.link
        n == FindLinked(linkedNotes, slug)
    IN IF n # 0
       THEN [tag |-> "a", href |-> baseUrl \o "/" \o slug \o "/" \o linkedNotes[n].hash,
             class |-> "internal-link", text |-> escapeHtml(text), match |-> match]
       ELSE [tag |-> "span", class |-> "internal-link unresolved",
             text |-> escapeHtml(text), match |-> match]

RECURSIVE ReplaceFrom(_, _, _, _)
ReplaceFrom(s, i, baseUrl, linkedNotes) ==
    IF i > Len(s) THEN <<>>
    ELSE LET m == MatchAt(s, i)
         IN IF m = NoMatch
            THEN <<[tag |-> "", char |-> s[i]]>> \o ReplaceFrom(s, i + 1, baseUrl, linkedNotes)
            ELSE <<ReplaceLink(SubSeq(s, i, m.end), m, baseUrl, linkedNotes)>>
                 \o ReplaceFrom(s, m.end + 1, baseUrl, linkedNotes)

processInternalLinks(content, baseUrl, linkedNotes) ==
    ReplaceFrom(content, 1, baseUrl, linkedNotes)

\* the contents: up to MaxTokens of these pieces in a row
LinkTokens == {<<"[", "[">>, <<"]", "]">>, <<"|">>, <<"a">>, <<"B">>, <<"]">>}

RECURSIVE Flatten(_)
Flatten(ts) == IF ts = <<>> THEN <<>> ELSE Head(ts) \o Flatten(Tail(ts))

LinkContents == {Flatten(ts) : ts \in UNION {[1..n -> LinkTokens] : n \in 0..MaxTokens}}

\* the linkedNotes of the note: none, the note "B!", and two notes with the
\* slug a-b before it
LinkedLists ==
    {<<>>,
     <<[titleSlug |-> "b", hash |-> "0afac5dc"]>>,
     <<[titleSlug |-> "a-b", hash |-> "884e3713"],
       [titleSlug |-> "a-b", hash |-> "e3c8d8f7"],
       [titleSlug |-> "b", hash |-> "0afac5dc"]>>}

(***************************************************************************)
(* The Semaphore of the plugin (main.ts 16-47; the same class at render.ts *)
(* 388-415).  The callers of run are interchangeable, so the model counts  *)
(* them: queue is the number of resolve functions in this.queue; of the    *)
(* calls of run, resolved are waiters whose promise release has resolved   *)
(* and whose continuation (main.ts 30) has not run yet, acquired have      *)
(* returned from acquire and not yet called fn, executing are inside fn.   *)
(***************************************************************************)
MAX_CONCURRENT == 20

\* the numbers of linked notes of the shared note
LinkCounts == (MaxLinked - 2)..MaxLinked

\* this.running < MAX_CONCURRENT (main.ts 25)
HasRoom(s) == s.running < MAX_CONCURRENT

\* run calls acquire, which takes the permit at once (main.ts 25-27)
AcquireFree ==
    /\ runs.calls < MaxRuns
    /\ HasRoom(sem)
    /\ sem' = [sem EXCEPT !.running = @ + 1]
    /\ runs' = [runs EXCEPT !.calls = @ + 1, !.acquired = @ + 1]
    /\ UNCHANGED offSem

\* run calls acquire, which queues the resolve of a new promise (main.ts 29)
AcquireQueue ==
    /\ runs.calls < MaxRuns
    /\ ~HasRoom(sem)
    /\ sem' = [sem EXCEPT !.queue = @ + 1]
    /\ runs' = [runs EXCEPT !.calls = @ + 1]
    /\ UNCHANGED offSem

\* the continuation of a waiter whose promise was resolved (main.ts 30)
AcquireResume ==
    /\ runs.resolved > 0
    /\ sem' = [sem EXCEPT !.running = @ + 1]
    /\ runs' = [runs EXCEPT !.resolved = @ - 1, !.acquired = @ + 1]
    /\ UNCHANGED offSem

\* run goes on after await this.acquire() and calls fn (main.ts 40-42)
RunFn ==
    /\ runs.acquired > 0
    /\ runs' = [runs EXCEPT !.acquired = @ - 1, !.executing = @ + 1]
    /\ UNCHANGED <<sem, offSem>>

\* fn has settled and the finally of run calls release (main.ts 33-37, 43-45)
Release ==
    /\ runs.executing > 0
    /\ sem' = [running |-> sem.running - 1,
               queue |-> IF sem.queue > 0 THEN sem.queue - 1 ELSE 0]
    /\ runs' = [runs EXCEPT !.executing = @ - 1,
                            !.resolved = IF sem.queue > 0 THEN @ + 1 ELSE @]
    /\ UNCHANGED offSem

NextSemaphore ==
    \/ AcquireFree
    \/ AcquireQueue
    \/ AcquireResume
    \/ RunFn
    \/ Release

(***************************************************************************)
(* NoteShareAPI.shareNote (api.ts 24-54) and saveSettings (main.ts 610-    *)
(* 613).  api.inFlightShares[i] is the key set of the map of the i-th      *)
(* NoteShareAPI object; this.api is the object api.current.                *)
(***************************************************************************)
\* `${request.vault}:${request.title}` (api.ts 38)
ShareKey(request) == request.vault \o ":" \o Join(request.title)

\* the requests the plugin shares: two notes of one vault
ShareRequests == {[vault |-> "v1", title |-> t] : t \in {TitleAB, TitleB}}

\* this.inFlightShares.set(key, promise) (api.ts 52)
InFlightSet(a, key) == [a EXCEPT !.inFlightShares[a.current] = @ \cup {key}]

\* shareNote while its object has a promise for the key (api.ts 41-45)
ShareNoteDeduplicated ==
    /\ fetches.calls < MaxShareCalls
    /\ \E request \in ShareRequests :
        /\ ShareKey(request) \in api.inFlightShares[api.current]
        /\ fetches' = [fetches EXCEPT !.calls = @ + 1, !.deduplicated = @ + 1]
    /\ UNCHANGED <<api, offApi>>

\* shareNote without one: doShareNote sends the POST (api.ts 48-58)
ShareNoteSends ==
    /\ fetches.calls < MaxShareCalls
    /\ \E request \in ShareRequests :
        /\ ShareKey(request) \notin api.inFlightShares[api.current]
        /\ api' = InFlightSet(api, ShareKey(request))
        /\ fetches' = [fetches EXCEPT
                          !.calls = @ + 1,
                          !.open = @ \cup {[id |-> fetches.calls + 1,
                                            key |-> ShareKey(request),
                                            api |-> api.current,
                                            state |-> "sent"]}]
    /\ UNCHANGED offApi

\* the response of a POST arrives (api.ts 58-66)
FetchAnswered ==
    /\ \E f \in fetches.open :
        /\ f.state = "sent"
        /\ fetches' = [fetches EXCEPT
                          !.open = (@ \ {f}) \cup {[f EXCEPT !.state = "answered"]}]
    /\ UNCHANGED <<api, offApi>>

\* the finally of the promise deletes the key from the map of its own
\* object (api.ts 48-50)
FetchFinally ==
    /\ \E f \in fetches.open :
        /\ f.state = "answered"
        /\ fetches' = [fetches EXCEPT !.open = @ \ {f}]
        /\ api' = [api EXCEPT !.inFlightShares[f.api] = @ \ {f.key}]
    /\ UNCHANGED offApi

\* saveSettings: this.api = new NoteShareAPI(this.settings) (main.ts 612)
SaveSettings ==
    /\ Len(api.inFlightShares) <= MaxSaves
    /\ api' = [inFlightShares |-> Append(api.inFlightShares, {}),
               current |-> Len(api.inFlightShares) + 1]
    /\ UNCHANGED <<fetches, offApi>>

NextShares ==
    \/ ShareNoteDeduplicated
    \/ ShareNoteSends
    \/ FetchAnswered
    \/ FetchFinally
    \/ SaveSettings

(***************************************************************************)
(* The auto-sync timers of the plugin: handleFileModify (main.ts 160-193)  *)
(* and onunload (594-604).  timers.set holds the timers of the runtime     *)
(* that are neither fired nor cleared, each with its id, its callback      *)
(* (interval, first or idle) and the TFile its callback holds; the clock   *)
(* counts delays of half the auto-sync delay.  Timers due at the same tick *)
(* fire in any order.  A file is named by the path it has at first;        *)
(* plugin.path is its file.path now, plugin.sharedNotes the paths with an  *)
(* entry in settings.sharedNotes.                                          *)
(***************************************************************************)
\* the auto-sync delay (main.ts 167), in ticks
Delay == 2

\* files with an entry in settings.sharedNotes, and one without
SharedFiles == {"a.md", "b.md"}

Files == SharedFiles \cup {"c.md"}

\* a map without entry
NoFile == [f \in {} |-> 0]

Timer(id, kind, file, due) == [id |-> id, kind |-> kind, file |-> file, due |-> due]

\* clearTimeout, clearInterval: the timer of this id, if it is still set
Clear(set, id) == {t \in set : t.id # id}

\* this.autoSyncNote(file) is called by timer t (main.ts 171, 175, 188);
\* lateSyncs are the files synced by a timer set after their note was
\* unshared, strays those synced by an interval no map holds
AutoSyncStarted(p, t) ==
    [p EXCEPT !.autoSyncs = @ + 1,
              !.autoSyncsUnloaded = IF p.loaded THEN @ ELSE @ + 1,
              !.lateSyncs = IF t.file \in DOMAIN p.unshared /\ t.id > p.unshared[t.file]
                            THEN @ \cup {t.file} ELSE @]

\* main.ts 161-164: auto-sync off or the file is not shared
HandleFileModifyIgnored(file) ==
    /\ plugin.loaded
    /\ plugin.modifies < MaxModifies
    /\ plugin.path[file] \notin plugin.sharedNotes
    /\ plugin' = [plugin EXCEPT !.modifies = @ + 1]
    /\ UNCHANGED <<timers, offTimers>>

\* main.ts 166-192
HandleFileModify(file) ==
    /\ plugin.loaded
    /\ plugin.modifies < MaxModifies
    /\ plugin.path[file] \in plugin.sharedNotes
    /\ LET n == plugin.timerIds
           path == plugin.path[file]
           due == plugin.clock + Delay
           first == path \notin DOMAIN timers.syncIntervals
           started == IF first
                      THEN {Timer(n + 1, "interval", file, due),
                            Timer(n + 2, "first", file, due)}
                      ELSE {}
           idle == IF first THEN n + 3 ELSE n + 1
           kept == IF path \in DOMAIN timers.syncTimeouts
                   THEN Clear(timers.set, timers.syncTimeouts[path])
                   ELSE timers.set
       IN /\ timers' =
                [syncIntervals |-> IF first THEN Put(timers.syncIntervals, path, n + 1)
                                   ELSE timers.syncIntervals,
                 syncTimeouts |-> Put(timers.syncTimeouts, path, idle),
                 set |-> kept \cup started \cup {Timer(idle, "idle", file, due)}]
          /\ plugin' = [plugin EXCEPT !.modifies = @ + 1, !.timerIds = idle]
    /\ UNCHANGED offTimers

Due == {t \in timers.set : t.due = plugin.clock}

\* the interval fires (main.ts 171) and stays set
IntervalFires ==
    /\ \E t \in Due :
        /\ t.kind = "interval"
        /\ timers' = [timers EXCEPT !.set = (@ \ {t}) \cup {[t EXCEPT !.due = @ + Delay]}]
        /\ plugin' = AutoSyncStarted(plugin, t)
    /\ UNCHANGED offTimers

\* the first-sync timeout fires (main.ts 175)
FirstSyncFires ==
    /\ \E t \in Due :
        /\ t.kind = "first"
        /\ timers' = [timers EXCEPT !.set = @ \ {t}]
        /\ plugin' = AutoSyncStarted(plugin, t)
    /\ UNCHANGED offTimers

\* the idle timeout fires (main.ts 182-189)
IdleFires ==
    /\ \E t \in Due :
        /\ t.kind = "idle"
        /\ LET path == plugin.path[t.file]
           IN timers' =
              [syncIntervals |-> Delete(timers.syncIntervals, path),
               syncTimeouts |-> Delete(timers.syncTimeouts, path),
               set |-> IF path \in DOMAIN timers.syncIntervals
                       THEN Clear(timers.set \ {t}, timers.syncIntervals[path])
                       ELSE timers.set \ {t}]
        /\ plugin' = AutoSyncStarted(plugin, t)
    /\ UNCHANGED offTimers

\* half a delay passes once the timers that are due have fired
Tick ==
    /\ Due = {}
    /\ plugin.clock < MaxTicks
    /\ plugin' = [plugin EXCEPT !.clock = @ + 1]
    /\ UNCHANGED <<timers, offTimers>>

\* the timers whose id is a value of one of the two maps are cleared
ClearedAll(t) ==
    {x \in t.set :
        /\ \A f \in DOMAIN t.syncIntervals : t.syncIntervals[f] # x.id
        /\ \A f \in DOMAIN t.syncTimeouts : t.syncTimeouts[f] # x.id}

\* onunload (main.ts 594-604); Obsidian removes the modify handler
\* registered with registerEvent (127-133)
OnUnload ==
    /\ plugin.loaded
    /\ timers' = [syncIntervals |-> NoFile, syncTimeouts |-> NoFile,
                  set |-> ClearedAll(timers)]
    /\ plugin' = [plugin EXCEPT !.loaded = FALSE]
    /\ UNCHANGED offTimers

NextTimers ==
    \/ \E file \in Files :
        \/ HandleFileModify(file)
        \/ HandleFileModifyIgnored(file)
    \/ IntervalFires
    \/ FirstSyncFires
    \/ IdleFires
    \/ Tick
    \/ OnUnload

\* the delete button of the sidebar on the note of a shared file
\* (sidebar.ts 117-126): api.deleteNote and a refresh of the list;
\* unshared keeps the last timer id given before
SidebarDelete(file) ==
    /\ plugin.loaded
    /\ plugin.path[file] \in plugin.sharedNotes
    /\ file \notin DOMAIN plugin.unshared
    /\ plugin' = [plugin EXCEPT !.unshared = Put(@, file, plugin.timerIds)]
    /\ UNCHANGED <<timers, offTimers>>

\* the path a file is renamed to
RenamedTo(file) ==
    CASE file = "a.md" -> "a2.md"
      [] file = "b.md" -> "b2.md"
      [] OTHER -> "c2.md"

\* the rename event (main.ts 137-146): the entry of settings.sharedNotes
\* moves to the new path and saveSettings makes a new NoteShareAPI (612);
\* the maps of the timers are not touched.  A file is renamed once.
Rename(file) ==
    /\ plugin.loaded
    /\ plugin.path[file] = file
    /\ LET shared == file \in plugin.sharedNotes
       IN /\ plugin' = [plugin EXCEPT !.path[file] = RenamedTo(file),
                                      !.sharedNotes = IF shared
                                                      THEN (@ \ {file}) \cup {RenamedTo(file)}
                                                      ELSE @]
          /\ api' = IF shared
                    THEN [inFlightShares |-> Append(api.inFlightShares, {}),
                          current |-> Len(api.inFlightShares) + 1]
                    ELSE api
    /\ UNCHANGED <<serverVars, call, semVars, fetches, timers, readerVars, shareVars, syncVars>>

NextRename ==
    \/ \E file \in Files :
        \/ HandleFileModify(file)
        \/ HandleFileModifyIgnored(file)
        \/ Rename(file)
    \/ IntervalFires
    \/ FirstSyncFires
    \/ IdleFires
    \/ Tick

NextUnshare ==
    \/ \E file \in Files :
        \/ HandleFileModify(file)
        \/ HandleFileModifyIgnored(file)
        \/ SidebarDelete(file)
    \/ IntervalFires
    \/ FirstSyncFires
    \/ IdleFires
    \/ Tick

(***************************************************************************)
(* shareNote with linked notes (main.ts 306-332): getLinkedNotes (564-592) *)
(* runs one task per linked note on the shared Semaphore, and the task     *)
(* calls processImages (384-464) with the same Semaphore, which runs one   *)
(* task per image.  Every linked note of the model embeds one image.  The  *)
(* tasks of a kind are interchangeable, so the model counts them: reading  *)
(* are linked-note tasks inside fn before processImages, waiting are       *)
(* inside fn awaiting their upload, uploading are upload tasks inside fn,  *)
(* uploaded are finished uploads whose linked-note task has not gone on.   *)
(* queue holds the kinds of the waiters of this.queue in order, resolved   *)
(* those whose promise release has resolved.                               *)
(***************************************************************************)
\* release (main.ts 33-37)
Released(t) ==
    [t EXCEPT !.running = @ - 1,
              !.queue = IF @ = <<>> THEN @ ELSE Tail(@),
              !.resolved = IF t.queue = <<>> THEN @ ELSE Append(@, Head(t.queue))]

\* getLinkedNotes calls semaphore.run for each of n linked notes in one
\* loop (main.ts 574-586): the first MAX_CONCURRENT acquire, the others queue
GetLinkedNotes ==
    /\ ~tasks.started
    /\ \E n \in LinkCounts :
        LET free == IF n < MAX_CONCURRENT THEN n ELSE MAX_CONCURRENT
        IN tasks' = [tasks EXCEPT !.started = TRUE, !.linked = n,
                                  !.running = free, !.reading = free,
                                  !.queue = [i \in 1..(n - free) |-> "linked"]]
    /\ UNCHANGED offShare

\* the read of a linked note returns and processImages runs the upload of
\* its image on the same Semaphore (main.ts 580-582, 463): acquire
\* (main.ts 24-31) takes a permit or queues
LinkedNoteRead ==
    /\ tasks.reading > 0
    /\ tasks' = IF tasks.running < MAX_CONCURRENT
                THEN [tasks EXCEPT !.reading = @ - 1, !.waiting = @ + 1,
                                   !.running = @ + 1, !.uploading = @ + 1]
                ELSE [tasks EXCEPT !.reading = @ - 1, !.waiting = @ + 1,
                                   !.queue = Append(@, "upload")]
    /\ UNCHANGED offShare

\* the continuation of a waiter whose promise was resolved (main.ts 30, 40-42)
WaiterResumes ==
    /\ tasks.resolved # <<>>
    /\ LET kind == Head(tasks.resolved)
       IN tasks' = [tasks EXCEPT !.resolved = Tail(@), !.running = @ + 1,
                                 !.reading = IF kind = "linked" THEN @ + 1 ELSE @,
                                 !.uploading = IF kind = "upload" THEN @ + 1 ELSE @]
    /\ UNCHANGED offShare

\* an upload completes and its run releases (main.ts 43-45)
UploadCompletes ==
    /\ tasks.uploading > 0
    /\ tasks' = [Released(tasks) EXCEPT !.uploading = @ - 1, !.uploaded = @ + 1]
    /\ UNCHANGED offShare

\* processImages of a linked note returns, its task ends and releases
\* (main.ts 582-583, 43-45)
LinkedNoteDone ==
    /\ tasks.waiting > 0
    /\ tasks.uploaded > 0
    /\ tasks' = [Released(tasks) EXCEPT !.waiting = @ - 1, !.uploaded = @ - 1,
                                        !.done = @ + 1]
    /\ UNCHANGED offShare

\* Promise.all of getLinkedNotes resolves and shareNote goes on to the
\* upload of the note (main.ts 589, 332-340)
LinkedNotesCollected ==
    /\ tasks.started
    /\ ~tasks.completed
    /\ tasks.done = tasks.linked
    /\ tasks' = [tasks EXCEPT !.completed = TRUE]
    /\ UNCHANGED offShare

NextLinkedShare ==
    \/ GetLinkedNotes
    \/ LinkedNoteRead
    \/ WaiterResumes
    \/ UploadCompletes
    \/ LinkedNoteDone
    \/ LinkedNotesCollected

(***************************************************************************)
(* A reader of a view URL.  The response of a view (index.ts 316-321) is   *)
(* sent with Cache-Control: public, max-age=86400, immutable; served holds *)
(* the note content of every 200 response a reader has received.           *)
(***************************************************************************)
ResponseKept(r) ==
    /\ req[r].pc = "done" /\ req[r].kind = "view"
    /\ req[r].resp.status = 200
    /\ LET doc == [in |-> req[r].in, content |-> req[r].resp.body.content]
       IN /\ doc \notin served
          /\ served' = served \cup {doc}
    /\ UNCHANGED offReader

(***************************************************************************)
(* Specifications.  Spec handles up to MaxInFlight requests at a time,     *)
(* SpecSeq one request at a time (completed, non-overlapping requests).    *)
(***************************************************************************)
\* no call is examined
NoCall == [text |-> <<>>, results |-> <<>>]

\* new Semaphore() (main.ts 21-22), no call of run yet
InitSemaphore ==
    /\ sem = [running |-> 0, queue |-> 0]
    /\ runs = [calls |-> 0, resolved |-> 0, acquired |-> 0, executing |-> 0]

\* onload (main.ts 59): the first NoteShareAPI, its map empty (api.ts 26)
InitApi ==
    /\ api = [inFlightShares |-> <<{}>>, current |-> 1]
    /\ fetches = [calls |-> 0, deduplicated |-> 0, open |-> {}]

\* the empty maps (main.ts 53-54) of a loaded plugin, no timer set
InitTimers ==
    /\ timers = [syncIntervals |-> NoFile, syncTimeouts |-> NoFile, set |-> {}]
    /\ plugin = [loaded |-> TRUE, clock |-> 0, timerIds |-> 0, modifies |-> 0,
                 autoSyncs |-> 0, autoSyncsUnloaded |-> 0,
                 sharedNotes |-> SharedFiles, path |-> [f \in Files |-> f],
                 unshared |-> NoFile, lateSyncs |-> {}]

\* no shareNote has created its Semaphore yet (main.ts 307)
InitShare ==
    tasks = [started |-> FALSE, linked |-> 0, running |-> 0, queue |-> <<>>,
             resolved |-> <<>>, reading |-> 0, waiting |-> 0, uploading |-> 0,
             uploaded |-> 0, done |-> 0, completed |-> FALSE]

\* no reader has received a document
InitReader == served = {}

\* no auto-sync has run; the server stores the content the note was shared
\* with, version 0 of the file
InitSync == sync = [started |-> 0, runs |-> {}, posts |-> {}, stored |-> 0]

\* the plugin objects after construction
InitObjects == InitSemaphore /\ InitApi /\ InitTimers /\ InitReader /\ InitShare /\ InitSync

InitPlugin == call = NoCall /\ InitObjects

InitServer ==
    /\ bucket = <<>>
    /\ themeCache = <<>>
    /\ req = [r \in Slots |-> Idle]
    /\ now = 1
    /\ received = [n |-> 0, vaults |-> {}]

Init == InitServer /\ InitPlugin

(***************************************************************************)
(* slugify applied to a text and to its own result.                        *)
(***************************************************************************)
SlugAlphabet == {"a", "B", "0", "-", "!"}

Texts == UNION {[1..n -> SlugAlphabet] : n \in 0..MaxLen}

InitLinks ==
    /\ InitServer
    /\ call \in {[content |-> c, linkedNotes |-> l, results |-> <<>>] :
                    c \in LinkContents, l \in LinkedLists}
    /\ InitObjects

\* renderNote calls processInternalLinks (render.ts 30)
ProcessInternalLinks ==
    /\ call.results = <<>>
    /\ call' = [call EXCEPT !.results =
                   <<processInternalLinks(call.content, ViewBaseUrl("v1"), call.linkedNotes)>>]
    /\ UNCHANGED offCall

NextLinks == ProcessInternalLinks

InitSlug ==
    /\ InitServer
    /\ call \in {[text |-> x, results |-> <<>>] : x \in Texts}
    /\ InitObjects

\* slugify(x)
SlugifyText ==
    /\ call.results = <<>>
    /\ call' = [call EXCEPT !.results = <<SlugChars(call.text)>>]
    /\ UNCHANGED offCall

\* slugify(slugify(x))
SlugifySlug ==
    /\ Len(call.results) = 1
    /\ call' = [call EXCEPT !.results = Append(@, SlugChars(call.results[1]))]
    /\ UNCHANGED offCall

NextSlug == SlugifyText \/ SlugifySlug

\* the steps of a publish without linked notes
SharePrimary(r, lim, bodies, ticking) ==
    \/ ShareReject(r, lim, bodies)
    \/ ShareStart(r, lim, bodies, ticking)
    \/ MainGet(r, ticking)
    \/ MainPut(r)
    \/ MainIdxGet(r)
    \/ MainIdxPut(r)

Share(r, lim, bodies, ticking) ==
    \/ SharePrimary(r, lim, bodies, ticking)
    \/ \E i \in LinkedPositions :
        \/ LinkedGet(r, i, ticking)
        \/ LinkedPut(r, i)
        \/ LinkedIdxGet(r, i)
        \/ LinkedIdxPut(r, i, ticking)

DeleteNoteRequest(r, lim, urls) ==
    \/ DeleteStart(r, lim, urls)
    \/ DeleteNote(r)
    \/ DeleteIdxGet(r)
    \/ DeleteIdxPut(r)

View(r, lim, urls) ==
    \/ ViewStart(r, lim, urls)
    \/ ViewGet(r)
    \/ ViewTheme(r)

Next ==
    \E r \in Slots :
        \/ Share(r, Load(MaxInFlight, MaxRequests, {API_KEY}), ConcBodies, FALSE)
        \/ DeleteNoteRequest(r, Load(MaxInFlight, MaxRequests, {API_KEY}), ConcUrls)

NextSeq ==
    \E r \in Slots :
        \/ Share(r, Load(1, MaxRequests, {API_KEY}), SeqBodies, TRUE)
        \/ DeleteNoteRequest(r, Load(1, MaxRequests, {API_KEY}), UrlParams)
        \/ View(r, Load(1, MaxRequests, {API_KEY}), UrlParams)

\* the requests of SpecApi: one note of v1 without linked notes, its URL
\* through both vaults, one image of it, and the theme bodies
ApiBodies == {Body("v1", TitleB, "c1", <<>>)} \cup BadBodies

ApiUrls == {u \in UrlParams : u.hash = generateNoteHash("v1", TitleB)}

ApiImages == {i \in ImageParams : i.filename = "a.png"}

ApiLoad == Load(1, MaxApiRequests, Keys)

Theme(r, lim, bodies, ticking) ==
    \/ ThemeReject(r, lim, bodies)
    \/ ThemeStart(r, lim, bodies)
    \/ ThemeGet(r, ticking)
    \/ ThemePut(r)

List(r, lim) ==
    \/ ListReject(r, lim)
    \/ ListStart(r, lim)
    \/ ListGet(r)

Image(r, lim, images) ==
    \/ ImageStart(r, lim, images)
    \/ ImagePut(r)
    \/ ServeStart(r, lim, images)
    \/ ServeGet(r)

Status(r, lim) ==
    \/ StatusStart(r, lim)
    \/ StatusList(r)

NextApi ==
    \E r \in Slots :
        \/ Unauthorized(r, ApiLoad)
        \/ Status(r, ApiLoad)
        \/ Theme(r, ApiLoad, ThemeBodies, TRUE)
        \/ SharePrimary(r, ApiLoad, ApiBodies, TRUE)
        \/ List(r, ApiLoad)
        \/ DeleteNoteRequest(r, ApiLoad, ApiUrls)
        \/ Image(r, ApiLoad, ApiImages)
        \/ View(r, ApiLoad, ApiUrls)
        \/ ViewThemeJson(r)
        \/ StoreFault(r)

\* the requests of SpecTheme: one note of v1, its view, a light and a dark
\* theme of v1
ConcThemeBodies ==
    {ThemeBody("v1", ThemeA, "light"), ThemeBody("v1", ThemeB, "dark"),
     [vault |-> "v1", theme |-> ThemeB]}

ThemeViewUrls == {u \in ApiUrls : u.vault = "v1"}

ThemeLoad == Load(MaxInFlight, MaxThemeRequests, {API_KEY})

NextTheme ==
    \E r \in Slots :
        \/ SharePrimary(r, ThemeLoad, ApiBodies, FALSE)
        \/ Theme(r, ThemeLoad, ConcThemeBodies, FALSE)
        \/ View(r, ThemeLoad, ThemeViewUrls)
        \/ ViewThemeJson(r)

\* the requests of SpecSweep: three notes of v1 kept for one day, for two
\* days and for ever, the last with the first as its linked note, and the
\* images of the first
Retained(body, days) == [body EXCEPT !.retentionDays = days]

SweepBodies ==
    {Retained(Body("v1", TitleB, "c1", <<>>), 1),
     Retained(Body("v1", TitleAB, "c1", <<>>), 2),
     Body("v1", TitleDash, "c1", <<LinkedB2>>)}

SweepLoad == Load(1, MaxSweepRequests, {API_KEY})

Sweep(r, lim) ==
    \/ SweepStart(r, lim)
    \/ SweepList(r)
    \/ SweepGet(r)
    \/ SweepListImages(r)
    \/ SweepDeleteNote(r)
    \/ \E img \in PrefixKeys(ImagesPrefix(generateNoteHash("v1", TitleB))) :
           SweepDeleteImage(r, img)
    \/ SweepIdxGet(r)
    \/ SweepIdxPut(r)
    \/ SweepFault(r)
    \/ SweepDeleteFault(r)

\* publishes, image uploads and sweeps while days pass
Retention(lim, bodies) ==
    \/ TimePasses
    \/ \E r \in Slots :
        \/ ShareStart(r, lim, bodies, FALSE)
        \/ MainGet(r, FALSE)
        \/ MainPut(r)
        \/ MainIdxGet(r)
        \/ MainIdxPut(r)
        \/ ImageStart(r, lim, ImageParams)
        \/ ImagePut(r)
        \/ Sweep(r, lim)

NextSweep ==
    \/ Retention(SweepLoad, SweepBodies)
    \/ \E r \in Slots, i \in LinkedPositions :
        \/ LinkedGet(r, i, FALSE)
        \/ LinkedPut(r, i)
        \/ LinkedIdxGet(r, i)
        \/ LinkedIdxPut(r, i, FALSE)

\* the requests of SpecImages: the note of v1 kept for one day and its images
ImagesBodies == {Retained(Body("v1", TitleB, "c1", <<>>), 1)}

ImagesLoad == Load(1, MaxImageRequests, {API_KEY})

NextImages == Retention(ImagesLoad, ImagesBodies)

\* the note a publish of the body at time t stores (index.ts 164-174)
PublishedNote(body, t) ==
    [vault |-> body.vault, titleSlug |-> slugify(body.title),
     hash |-> generateNoteHash(body.vault, body.title),
     title |-> body.title, content |-> body.content,
     createdAt |-> t, updatedAt |-> t,
     linkedNotes |-> <<>>, retentionDays |-> body.retentionDays]

\* the store after a first publish of the body, alone, at time t
\* (index.ts 176-185)
Published(b, body, t) ==
    LET note == PublishedNote(body, t)
    IN Put(Put(b, NoteKey(note.titleSlug, note.hash), note),
           IndexKey(body.vault),
           [notes |-> AddEntry(ReadIndex(b, body.vault).notes, IndexEntry(note))])

\* SpecSweepLive starts after the publishes of three notes of v1, kept for
\* one day, for ever and for two days: more notes than one page of list
LiveBodies ==
    <<Retained(Body("v1", TitleB, "c1", <<>>), 1),
      Body("v1", TitleDash, "c1", <<>>),
      Retained(Body("v1", TitleAB, "c1", <<>>), 2)>>

RECURSIVE PublishedAll(_, _)
PublishedAll(bodies, t) ==
    IF bodies = <<>> THEN <<>>
    ELSE Published(PublishedAll(SubSeq(bodies, 1, Len(bodies) - 1), t),
                   bodies[Len(bodies)], t)

InitLive ==
    /\ bucket = PublishedAll(LiveBodies, 1)
    /\ themeCache = <<>>
    /\ req = [r \in Slots |-> Idle]
    /\ now = 1
    /\ received = [n |-> Len(LiveBodies), vaults |-> {"v1"}]
    /\ InitPlugin

LiveLoad == Load(1, Len(LiveBodies) + MaxSweeps, {API_KEY})

NextSweepLive ==
    \/ TimePasses
    \/ \E r \in Slots :
        \/ SweepStart(r, LiveLoad)
        \/ SweepList(r)
        \/ SweepGet(r)
        \/ SweepListImages(r)
        \/ SweepDeleteNote(r)
        \/ SweepIdxGet(r)
        \/ SweepIdxPut(r)
        \/ SweepFault(r)
        \/ SweepDeleteFault(r)

\* the steps the runtime takes on its own once a sweep has started
SweepStep(r) ==
    \/ SweepList(r)
    \/ SweepGet(r)
    \/ SweepListImages(r)
    \/ SweepDeleteNote(r)
    \/ \E img \in PrefixKeys(ImagesPrefix(generateNoteHash("v1", TitleB))) :
           SweepDeleteImage(r, img)
    \/ SweepIdxGet(r)
    \/ SweepIdxPut(r)

\* the requests of SpecStop, one at a time: a publish with two linked
\* notes, one without, one without content, and the views of the notes of v1
StopBodies ==
    {Body("v1", TitleAB, "c1", <<LinkedB1, LinkedDash>>),
     Body("v1", TitleB, "c2", <<>>),
     [vault |-> "v1", title |-> TitleB]}

StopUrls == {u \in UrlParams : u.vault = "v1"}

StopLoad == Load(1, MaxStopRequests, {API_KEY})

PublishStops(r) ==
    \/ req[r].pc \in SharePcs /\ StoreFault(r)
    \/ WorkerStops(r)
    \/ AbandonedEnd(r)
    \/ \E i \in LinkedPositions :
        \/ LinkedFault(r, i)
        \/ AbandonedStep(r, i)

NextStop ==
    \E r \in Slots :
        \/ Share(r, StopLoad, StopBodies, FALSE)
        \/ View(r, StopLoad, StopUrls)
        \/ PublishStops(r)

\* the requests of SpecViews, one at a time: the note "B!" of v1 with
\* either content, a publish without content, and the views of its URL
ViewBodies == ApiBodies \cup {Body("v1", TitleB, "c2", <<>>)}

ViewLoad == Load(1, MaxViewRequests, {API_KEY})

NextViews ==
    \E r \in Slots :
        \/ SharePrimary(r, ViewLoad, ViewBodies, FALSE)
        \/ View(r, ViewLoad, ApiUrls)
        \/ ResponseKept(r)

UrlLoad == Load(1, MaxApiRequests, {API_KEY})

NextUrl ==
    \E r \in Slots :
        \/ ShareStart(r, UrlLoad, UrlBodies, FALSE)
        \/ MainGet(r, FALSE)
        \/ MainPut(r)
        \/ MainIdxGet(r)
        \/ MainIdxPut(r)
        \/ ViewUrlStart(r, UrlLoad, ClipboardUrls)
        \/ ViewGet(r)
        \/ ViewTheme(r)

Spec == Init /\ [][Next]_vars

SpecSeq == Init /\ [][NextSeq]_vars

\* SpecApi: every handler behind the middleware, one request at a time, with
\* any key and with faults of the object store
SpecApi == Init /\ [][NextApi]_vars

\* SpecTheme: publishes, theme writes and views, up to MaxInFlight at a time
SpecTheme == Init /\ [][NextTheme]_vars

\* SpecSlug: slugify applied twice to every text of up to MaxLen characters
SpecSlug == InitSlug /\ [][NextSlug]_vars

\* SpecLinks: processInternalLinks applied to every content of up to
\* MaxTokens pieces, with each of the lists of linked notes
SpecLinks == InitLinks /\ [][NextLinks]_vars

\* SpecStop: publishes that a fault of the store or a stop of the Worker
\* ends at any of their operations, and views, one request at a time
SpecStop == Init /\ [][NextStop]_vars

\* SpecSemaphore: up to MaxRuns calls of run on one Semaphore
SpecSemaphore == Init /\ [][NextSemaphore]_vars

\* SpecShares: up to MaxShareCalls calls of shareNote for two notes and up
\* to MaxSaves calls of saveSettings
SpecShares == Init /\ [][NextShares]_vars

\* SpecTimers: up to MaxModifies modifications of three files during
\* MaxTicks half delays, and the unload of the plugin
SpecTimers == Init /\ [][NextTimers]_vars

\* SpecViews: publishes of one note with two contents and views of its
\* URL, one request at a time, and the readers that receive the documents
SpecViews == Init /\ [][NextViews]_vars

\* SpecLinkedShare: one shareNote whose note links up to MaxLinked notes
\* with one image each; every read, upload and continuation that can run
\* does run
SpecLinkedShare ==
    Init /\ [][NextLinkedShare]_vars /\ WF_vars(NextLinkedShare)

\* SpecUnshare: modifications of three files, the timers, and the delete
\* button of the sidebar
SpecUnshare == Init /\ [][NextUnshare]_vars

\* SpecRename: modifications and renames of three files, and the timers
SpecRename == Init /\ [][NextRename]_vars

\* SpecUrl: publishes of three titles and views of the links the plugin
\* computes for them, one request at a time
SpecUrl == Init /\ [][NextUrl]_vars

\* SpecSweep: publishes with a retention, image uploads and scheduled sweeps,
\* one at a time, while days pass and with faults of the object store
SpecSweep == Init /\ [][NextSweep]_vars

\* SpecSweepLive: sweeps of a store with three notes while days pass, where
\* every operation the sweep awaits completes or throws
SpecSweepLive ==
    InitLive /\ [][NextSweepLive]_vars /\ WF_vars(\E r \in Slots : SweepStep(r))

\* SpecImages: as SpecSweep, with one note and more images than one page of
\* list holds
SpecImages == Init /\ [][NextImages]_vars

(***************************************************************************)
(* Properties.                                                             *)
(***************************************************************************)
IsNote(o) == "vault" \in DOMAIN o

NoteKeysOf(b) == {k \in DOMAIN b : IsNote(b[k])}

NotesOfVault(b, vault) == {k \in NoteKeysOf(b) : b[k].vault = vault}

IndexNotes(b, vault) == ReadIndex(b, vault).notes

EntriesFor(notes, titleSlug, hash) ==
    {i \in DOMAIN notes : SameEntry(notes[i], titleSlug, hash)}

Succeeded(r, kind) ==
    /\ req[r].pc = "done"
    /\ req[r].kind = kind
    /\ req[r].resp.status = 200

PrimaryKey(body) == NoteKey(slugify(body.title), generateNoteHash(body.vault, body.title))

LinkedKey(body, i) ==
    NoteKey(slugify(body.linkedNotes[i].title),
            generateNoteHash(body.vault, body.linkedNotes[i].title))

Quiet == InFlight = {}

\* C1: every publish of (vault, title) writes the same key: at most one
\* note object exists for a (vault, title), and once a publish has completed
\* that object holds the content of that publish (SpecSeq).
C1_SameKeyLatestContent ==
    /\ \A k1, k2 \in NoteKeysOf(bucket) :
          (bucket[k1].vault = bucket[k2].vault /\ bucket[k1].title = bucket[k2].title)
              => k1 = k2
    /\ \A r \in Slots :
          Succeeded(r, "share") =>
              LET body == req[r].in
                  own == {k \in NoteKeysOf(bucket) :
                             bucket[k].vault = body.vault /\ bucket[k].title = body.title}
              IN /\ Cardinality(own) = 1
                 /\ \A k \in own : bucket[k].content = body.content

\* a re-publish with other content has completed on a note published before
C1_Witness ==
    \E r \in Slots :
        /\ Succeeded(r, "share")
        /\ req[r].in.content = "c2"
        /\ req[r].note.createdAt < req[r].t0
        /\ bucket[PrimaryKey(req[r].in)].content = "c2"

\* the steps that put a note record
PutsMain(r) ==
    /\ req[r].pc = "mainPut"
    /\ req'[r].pc = "mainIdxGet"

PutsLinked(r, i) ==
    /\ req[r].pc = "linkedStore"
    /\ i \in DOMAIN req[r].lk
    /\ req[r].lk[i].pc = "put"
    /\ req'[r].lk[i].pc = "idxGet"

KeepsCreatedAt(key, t0) ==
    /\ bucket'[key].updatedAt >= t0
    /\ bucket'[key].updatedAt <= now
    /\ IF Has(bucket, key)
       THEN bucket'[key].createdAt = bucket[key].createdAt
       ELSE /\ bucket'[key].createdAt >= t0
            /\ bucket'[key].createdAt <= bucket'[key].updatedAt

\* C2: a put of a note record (primary or linked) on a key that holds a
\* record keeps that record's createdAt and stamps an updatedAt read during
\* the request; createdAt is a time read during the request only when the
\* key holds no record (SpecSeq).
C2_CreatedAtPreserved ==
    [][\A r \in Slots :
          /\ PutsMain(r) => KeepsCreatedAt(NoteKey(req[r].titleSlug, req[r].hash), req[r].t0)
          /\ \A i \in LinkedPositions :
                PutsLinked(r, i) =>
                    KeepsCreatedAt(NoteKey(req[r].lk[i].titleSlug, req[r].lk[i].hash),
                                   req[r].t0)]_vars

\* a publish has rewritten a record created before the request arrived, as
\* primary note and as linked note
C2_Witness ==
    \E r \in Slots :
        /\ Succeeded(r, "share")
        /\ req[r].note.createdAt < req[r].t0
        /\ req[r].note.updatedAt >= req[r].t0
        /\ \E i \in DOMAIN req[r].in.linkedNotes :
              LET n == bucket[LinkedKey(req[r].in, i)]
              IN n.createdAt < req[r].t0 /\ n.updatedAt >= req[r].t0

IndexMatchesNotes(vault) ==
    LET notes == IndexNotes(bucket, vault)
    IN /\ \A k \in NotesOfVault(bucket, vault) :
             Cardinality(EntriesFor(notes, bucket[k].titleSlug, bucket[k].hash)) = 1
       /\ \A i \in DOMAIN notes :
             \E k \in NotesOfVault(bucket, vault) :
                 k = NoteKey(notes[i].titleSlug, notes[i].hash)

\* C3: after completed, non-overlapping publish and delete requests on a
\* vault (and on no other vault), the index of the vault holds exactly one
\* entry for each note object of the vault and no other entry (SpecSeq).
C3_IndexMatchesNotes ==
    Quiet => \A vault \in Vaults :
                received.vaults \subseteq {vault} => IndexMatchesNotes(vault)

NoDanglingEntry(vault) ==
    \A i \in DOMAIN IndexNotes(bucket, vault) :
        Has(bucket, NoteKey(IndexNotes(bucket, vault)[i].titleSlug,
                            IndexNotes(bucket, vault)[i].hash))

\* C4: in every reachable state no index holds an entry whose note object
\* is absent (Spec).
C4_NoDanglingEntry ==
    \A vault \in Vaults : NoDanglingEntry(vault)

NoteKeysWritten(body) ==
    {PrimaryKey(body)} \cup {LinkedKey(body, i) : i \in DOMAIN body.linkedNotes}

IndexedOnce(b, key) ==
    Cardinality(EntriesFor(IndexNotes(b, b[key].vault), b[key].titleSlug, b[key].hash)) = 1

\* C5: after two publish requests to one vault, for different notes, that
\* were handled at the same time have completed, every note object they
\* wrote appears exactly once in the index of the vault (Spec).
C5_ConcurrentPublishesIndexed ==
    \A r1, r2 \in Slots :
        (/\ r1 # r2
         /\ Quiet
         /\ received.n = 2
         /\ Succeeded(r1, "share") /\ Succeeded(r2, "share")
         /\ req[r1].in.vault = req[r2].in.vault
         /\ req[r1].in.title # req[r2].in.title)
        => \A k \in NoteKeysWritten(req[r1].in) \cup NoteKeysWritten(req[r2].in) :
              Has(bucket, k) => IndexedOnce(bucket, k)

NoDuplicateEntry(notes) ==
    \A i, j \in DOMAIN notes :
        SameEntry(notes[i], notes[j].titleSlug, notes[j].hash) => i = j

Completes(r) ==
    /\ req[r].pc = "mainIdxPut"
    /\ req'[r].pc = "done"

\* C5 as amended: when a publish completes, also the last of several that
\* were handled at the same time, no note has two entries in the index of
\* the vault and the primary note of that publish is its first entry; the
\* index write of one publish may drop the entry of another (Spec).
C5_LastWriteWins ==
    [][\A r \in Slots :
          Completes(r) =>
              LET notes == IndexNotes(bucket', req[r].body.vault)
              IN /\ NoDuplicateEntry(notes)
                 /\ notes # <<>>
                 /\ notes[1] = IndexEntry(req[r].note)]_vars

\* two publishes of different notes of a vault were handled at the same
\* time and have completed; the note of one is the first entry, the note of
\* the other is stored and has no entry
C5_Witness ==
    \E r1, r2 \in Slots :
        /\ r1 # r2
        /\ Quiet
        /\ Succeeded(r1, "share") /\ Succeeded(r2, "share")
        /\ req[r1].in.vault = req[r2].in.vault
        /\ req[r1].in.title # req[r2].in.title
        /\ IndexNotes(bucket, req[r1].in.vault)[1] = IndexEntry(req[r1].note)
        /\ Has(bucket, PrimaryKey(req[r2].in))
        /\ EntriesFor(IndexNotes(bucket, req[r2].in.vault),
                      req[r2].note.titleSlug, req[r2].note.hash) = {}

\* C6: in every reachable state, whatever the interleaving of addToIndex
\* and removeFromIndex, an index holds at most one entry per (titleSlug,
\* hash) (Spec).
C6_OneEntryPerPair ==
    \A vault \in Vaults : NoDuplicateEntry(IndexNotes(bucket, vault))

\* a publish and a delete of the same note were handled at the same time,
\* and the note has its entry
C6_Witness ==
    \E r1, r2 \in Slots :
        /\ Succeeded(r1, "share") /\ Succeeded(r2, "delete")
        /\ received.n = 2 /\ r1 # r2
        /\ req[r1].in.vault = req[r2].in.vault
        /\ PrimaryKey(req[r1].in) = NoteKey(req[r2].in.titleSlug, req[r2].in.hash)
        /\ Cardinality(EntriesFor(IndexNotes(bucket, req[r1].in.vault),
                                  req[r2].in.titleSlug, req[r2].in.hash)) = 1

WasIndexed(q) == EntriesFor(q.idx0, q.note.titleSlug, q.note.hash) # {}

MovedToFront(q) ==
    LET notes == IndexNotes(bucket, q.in.vault)
    IN /\ notes # <<>>
       /\ notes[1] = IndexEntry(q.note)

OtherEntries(notes, q) ==
    SelectSeq(notes, LAMBDA n : ~(n.titleSlug = q.note.titleSlug /\ n.hash = q.note.hash))

OthersUntouched(q) ==
    LET notes == IndexNotes(bucket, q.in.vault)
    IN /\ Len(notes) = Len(q.idx0)
       /\ OtherEntries(notes, q) = OtherEntries(q.idx0, q)

\* C7: when a publish of a note that had an index entry has completed, the
\* entry of the note is the first one, the index is as long as before and
\* the other entries are in the order they were in (SpecSeq).
C7_MovesToFront ==
    \A r \in Slots :
        (Succeeded(r, "share") /\ WasIndexed(req[r]))
            => MovedToFront(req[r]) /\ OthersUntouched(req[r])

\* C7 as amended: the entry of the note is the first one; when the request
\* carries no linked notes, the index is as long as before and the other
\* entries are in the order they were in (SpecSeq).
C7_MovesToFrontNoLinked ==
    \A r \in Slots :
        (Succeeded(r, "share") /\ WasIndexed(req[r]))
            => /\ MovedToFront(req[r])
               /\ req[r].in.linkedNotes = <<>> => OthersUntouched(req[r])

\* a note that was the last of three entries has been published again
C7_Witness ==
    \E r \in Slots :
        /\ Succeeded(r, "share")
        /\ req[r].in.linkedNotes = <<>>
        /\ Len(req[r].idx0) = 3
        /\ SameEntry(req[r].idx0[3], req[r].note.titleSlug, req[r].note.hash)
        /\ MovedToFront(req[r])

\* C8: the primary record is put only when every linked note is stored and
\* indexed, and when the publish has returned success every entry of the
\* linkedNotes of the primary record has its note object, one for each
\* linked note of the request (SpecSeq).
C8_LinkedBeforePrimary ==
    \A r \in Slots :
        /\ (req[r].pc \in {"mainPut", "mainIdxGet", "mainIdxPut"}) =>
              \A i \in DOMAIN req[r].lk :
                  /\ req[r].lk[i].pc = "done"
                  /\ Has(bucket, NoteKey(req[r].lk[i].titleSlug, req[r].lk[i].hash))
        /\ Succeeded(r, "share") =>
              LET body == req[r].in
                  note == bucket[PrimaryKey(body)]
              IN /\ Len(note.linkedNotes) = Len(body.linkedNotes)
                 /\ \A i \in DOMAIN note.linkedNotes :
                       Has(bucket, NoteKey(note.linkedNotes[i].titleSlug,
                                           note.linkedNotes[i].hash))
                 /\ \A i \in DOMAIN body.linkedNotes :
                       \E j \in DOMAIN note.linkedNotes :
                           LinkedKey(body, i) = NoteKey(note.linkedNotes[j].titleSlug,
                                                        note.linkedNotes[j].hash)

\* a publish with two different linked notes has returned success
C8_Witness ==
    \E r \in Slots :
        /\ Succeeded(r, "share")
        /\ Len(req[r].in.linkedNotes) = 2
        /\ LinkedKey(req[r].in, 1) # LinkedKey(req[r].in, 2)
        /\ Len(bucket[PrimaryKey(req[r].in)].linkedNotes) = 2

NoSuchNote(b, in) ==
    \A k \in NoteKeysOf(b) :
        ~(b[k].vault = in.vault /\ b[k].titleSlug = in.titleSlug /\ b[k].hash = in.hash)

SameNotesAndEntries(b1, b2) ==
    /\ NoteKeysOf(b1) = NoteKeysOf(b2)
    /\ \A k \in NoteKeysOf(b1) : b1[k] = b2[k]
    /\ \A vault \in Vaults : IndexNotes(b1, vault) = IndexNotes(b2, vault)

\* C9: a delete of a (vault, titleSlug, hash) for which no note with that
\* vault, titleSlug and hash is stored returns success and leaves every note
\* object and the entries of every index as they were; after a delete a
\* second delete has nothing left to remove (SpecSeq).
C9_DeleteMissingIsNoOp ==
    \A r \in Slots :
        Succeeded(r, "delete") =>
            /\ NoSuchNote(req[r].bucket0, req[r].in) =>
                  SameNotesAndEntries(req[r].bucket0, bucket)
            /\ ~Has(bucket, NoteKey(req[r].in.titleSlug, req[r].in.hash))
            /\ EntriesFor(IndexNotes(bucket, req[r].in.vault),
                          req[r].in.titleSlug, req[r].in.hash) = {}

Viewable(in) ==
    /\ Has(bucket, NoteKey(in.titleSlug, in.hash))
    /\ bucket[NoteKey(in.titleSlug, in.hash)].vault = in.vault

\* C10: a view renders only a note whose stored vault is the vault of the
\* URL; for a note of another vault it returns the 404 response it returns
\* for a key without note object (SpecSeq).
C10_VaultMismatchIsNotFound ==
    \A r \in Slots :
        (req[r].pc = "done" /\ req[r].kind = "view") =>
            IF Viewable(req[r].in)
            THEN /\ req[r].resp.status = 200
                 /\ req[r].resp.body.title = bucket[NoteKey(req[r].in.titleSlug, req[r].in.hash)].title
            ELSE req[r].resp = Html(404, render404)

\* a view of a stored note through the URL of another vault has returned 404
C10_Witness ==
    \E r \in Slots :
        /\ req[r].pc = "done" /\ req[r].kind = "view"
        /\ Has(bucket, NoteKey(req[r].in.titleSlug, req[r].in.hash))
        /\ bucket[NoteKey(req[r].in.titleSlug, req[r].in.hash)].vault # req[r].in.vault
        /\ req[r].resp.status = 404

\* a request has arrived in slot r
Arrived(r) ==
    /\ received'.n = received.n + 1
    /\ req'[r] # req[r]

InputOf(q) == IF "body" \in DOMAIN q THEN q.body ELSE q.in

StoreUntouched == bucket' = bucket /\ themeCache' = themeCache

LacksRequired(q) ==
    LET in == InputOf(q)
    IN CASE q.kind = "share" -> \E f \in {"vault", "title", "content"} : f \notin DOMAIN in
         [] q.kind = "theme" -> \E f \in {"vault", "theme", "mode"} : f \notin DOMAIN in
         [] q.kind = "list"  -> in.vault = ""
         [] OTHER -> FALSE

\* C12: a share without vault, title or content, a theme PUT without vault,
\* theme or mode and a list without vault are answered 400 at once, and a
\* request is answered 400 only at its arrival, with the bucket and the
\* theme cache as they were (SpecApi).
C12_RejectedWithoutEffect ==
    [][\A r \in Slots :
          /\ (Arrived(r) /\ LacksRequired(req'[r])) =>
                req'[r].pc = "done" /\ req'[r].resp.status = 400
          /\ (req'[r] # req[r] /\ req'[r].pc = "done" /\ req'[r].resp.status = 400) =>
                Arrived(r) /\ StoreUntouched]_vars

\* a theme PUT without mode was answered 400 while a theme is stored
C12_Witness ==
    \E r \in Slots :
        /\ req[r].pc = "done" /\ req[r].kind = "theme"
        /\ "mode" \notin DOMAIN req[r].in
        /\ req[r].resp.status = 400
        /\ Has(bucket, ThemeKey("v1"))

Faulted(q) == "fault" \in DOMAIN q

\* C13: a request whose store operation threw is answered 500; without
\* fault, the list of a vault without index is answered 200 with an empty
\* array, the view of a key without note object 404 and the delete of a key
\* without note object 200 with success (SpecApi).
C13_FaultIs500AbsenceIsNot ==
    \A r \in Slots :
        req[r].pc = "done" =>
            LET q == req[r]
            IN /\ Faulted(q) => q.resp.status = 500
               /\ (~Faulted(q) /\ q.kind = "list" /\ q.in.vault # ""
                      /\ ~Has(bucket, IndexKey(q.in.vault))) =>
                     q.resp = Json(200, <<>>)
               /\ (~Faulted(q) /\ q.kind = "view"
                      /\ ~Has(bucket, NoteKey(q.in.titleSlug, q.in.hash))) =>
                     q.resp.status = 404
               /\ (~Faulted(q) /\ q.kind = "delete"
                      /\ ~Has(q.bucket0, NoteKey(q.in.titleSlug, q.in.hash))) =>
                     q.resp = Json(200, [success |-> TRUE])

\* the put of the index of a publish threw after the note was stored, and
\* the publish was answered 500
C13_Witness ==
    \E r \in Slots :
        /\ req[r].pc = "done" /\ req[r].kind = "share"
        /\ Faulted(req[r]) /\ req[r].fault = "mainIdxPut"
        /\ req[r].resp.status = 500
        /\ Has(bucket, PrimaryKey(req[r].in))

ThemeOf(b, vault) == IF Has(b, ThemeKey(vault)) THEN b[ThemeKey(vault)] ELSE <<>>

\* the step in which a theme write puts the record and returns success
WritesTheme(r) ==
    /\ req[r].pc = "themePut"
    /\ req'[r].pc = "done"
    /\ req'[r].resp.status = 200

SlotKept(old, new, m) ==
    IF m \in DOMAIN old THEN m \in DOMAIN new /\ new[m] = old[m] ELSE m \notin DOMAIN new

\* C14: with one request handled at a time, a theme write stores its theme
\* in the slot of its mode and leaves the slot of the other mode as it was
\* before the write, so each slot holds the theme of the last write of its
\* mode (SpecApi).
C14_ThemeMerged ==
    [][\A r \in Slots :
          WritesTheme(r) =>
              LET in == req[r].in
                  old == ThemeOf(bucket, in.vault)
                  new == ThemeOf(bucket', in.vault)
              IN /\ new[in.mode] = in.theme
                 /\ \A m \in Modes \ {in.mode} : SlotKept(old, new, m)]_vars

\* light, dark and light again were written: the record holds the second
\* light theme and the dark theme
C14_Witness ==
    \E r \in Slots :
        /\ Succeeded(r, "theme")
        /\ req[r].in.mode = "light" /\ req[r].in.theme = ThemeB
        /\ ThemeOf(req[r].bucket0, "v1") # <<>>
        /\ DOMAIN ThemeOf(req[r].bucket0, "v1") = {"light", "dark", "updatedAt"}
        /\ ThemeOf(req[r].bucket0, "v1").light = ThemeA
        /\ ThemeOf(bucket, "v1").light = ThemeB
        /\ ThemeOf(bucket, "v1").dark = ThemeA

\* C15: when a light and a dark theme write to one vault that were handled
\* at the same time have both returned success, the stored record holds
\* the light theme and the dark theme they wrote (SpecTheme).
C15_ConcurrentThemesMerged ==
    \A r1, r2 \in Slots :
        (/\ Succeeded(r1, "theme") /\ Succeeded(r2, "theme")
         /\ req[r1].in.vault = req[r2].in.vault
         /\ req[r1].in.mode = "light" /\ req[r2].in.mode = "dark")
        => LET stored == ThemeOf(bucket, req[r1].in.vault)
           IN /\ {"light", "dark"} \subseteq DOMAIN stored
              /\ stored.light = req[r1].in.theme
              /\ stored.dark = req[r2].in.theme

\* getTheme answers from the cache
CacheAnswers(r) ==
    /\ req[r].pc = "viewGet"
    /\ req'[r].pc = "done"
    /\ "theme" \in DOMAIN req'[r]

\* C16: a getTheme that starts after a theme write of the vault has
\* returned success returns the record that write stored: what getTheme
\* takes from the cache is the stored theme record (SpecTheme).
C16_GetThemeReturnsWritten ==
    [][\A r \in Slots :
          CacheAnswers(r) => req'[r].theme = ThemeOf(bucket, req[r].in.vault)]_vars

\* C17: a view for which getTheme found no theme is answered 200 with the
\* CSS variables of the built-in defaults; a view for which getTheme found
\* a record with a dark and no light theme is answered 200 with the dark
\* CSS variables of that record (SpecTheme).
C17_DarkThemeRendered ==
    \A r \in Slots :
        (req[r].pc = "done" /\ req[r].kind = "view" /\ "theme" \in DOMAIN req[r]) =>
            LET theme == req[r].theme
            IN /\ theme = NoTheme =>
                     /\ req[r].resp.status = 200
                     /\ req[r].resp.body.styles = generateStyles(DEFAULT_THEME)
               /\ (theme # NoTheme /\ "dark" \in DOMAIN theme /\ "light" \notin DOMAIN theme) =>
                     /\ req[r].resp.status = 200
                     /\ req[r].resp.body.styles = generateStyles(theme.dark)

\* the keys of the notes
StoredNoteKeys == {k \in PrefixKeys(NotesPrefix) : Has(bucket, k)}

RetentionOf(note) == IF "retentionDays" \in DOMAIN note THEN note.retentionDays ELSE 0

LastUpdate(note) == IF "updatedAt" \in DOMAIN note THEN note.updatedAt ELSE note.createdAt

\* the claim's condition: kept for N > 0 days, and t is past the last
\* update by more than N days
PastRetention(note, t) ==
    RetentionOf(note) > 0 /\ t > LastUpdate(note) + RetentionOf(note) * DAY_MS

SweepOver(r) == req[r].pc = "done" /\ req[r].kind = "sweep" /\ ~req[r].failed

\* C18: the sweep deletes a note if and only if its stored retentionDays is
\* N > 0 and the time of the sweep is after its last update plus N days.
\* Only if: every step that removes a note removes one past its retention.
\* If: a sweep that ran to its end leaves no note past its retention.  A
\* note with retentionDays 0 or without retentionDays is never removed.
C18_DeletedIffExpired ==
    /\ [][\A r \in Slots, k \in StoredNoteKeys :
            (req[r].pc = "sweepDelete" /\ ~Has(bucket', k))
                => PastRetention(bucket[k], req[r].t)]_vars
    /\ [](\A r \in Slots : SweepOver(r) =>
            \A k \in StoredNoteKeys : ~PastRetention(bucket[k], req[r].t))

\* a sweep has deleted a note and has kept a note that is older than a day
\* and kept for ever, and a note at the instant of its expiry
C18_Witness ==
    \E r \in Slots :
        /\ SweepOver(r)
        /\ req[r].deleted # {}
        /\ \E k \in StoredNoteKeys :
            RetentionOf(bucket[k]) = 0 /\ req[r].t > LastUpdate(bucket[k]) + DAY_MS
        /\ \E k \in StoredNoteKeys :
            /\ RetentionOf(bucket[k]) > 0
            /\ req[r].t = LastUpdate(bucket[k]) + RetentionOf(bucket[k]) * DAY_MS

\* the titleSlug and hash of the note stored under the key
NoteOfKey(k) == CHOOSE n \in UrlNotes : NoteKey(n[1], n[2]) = k

Indexed(b, n) ==
    \E v \in Vaults : \E i \in DOMAIN ReadIndex(b, v).notes :
        /\ ReadIndex(b, v).notes[i].titleSlug = n[1]
        /\ ReadIndex(b, v).notes[i].hash = n[2]

ImagesLeft(b, hash) == {k \in PrefixKeys(ImagesPrefix(hash)) : Has(b, k)}

\* C19: after a sweep without fault and without concurrent requests, every
\* note that was expired is gone, its vault's index has no entry for it and
\* no object is left under images/{hash}/, however many images it had.
C19_ExpiredNoteFullyRemoved ==
    \A r \in Slots : SweepOver(r) =>
        /\ \A k \in StoredNoteKeys : ~PastRetention(bucket[k], req[r].t)
        /\ \A k \in req[r].deleted :
            /\ ~Has(bucket, k)
            /\ ~Indexed(bucket, NoteOfKey(k))
            /\ ImagesLeft(bucket, NoteOfKey(k)[2]) = {}

\* the sweep ended by a fault while it deleted the note at, its images or
\* its index entry
FaultedDeleting(r) ==
    /\ req[r].pc = "done"
    /\ req[r].kind = "sweep"
    /\ req[r].failed
    /\ req[r].fault = "sweepDelete"

\* C20: when a storage fault occurs while the sweep deletes one expired
\* note's images, note object or index entry, every other expired note is
\* deleted in the same sweep.
C20_FaultIsolatedPerNote ==
    \A r \in Slots : FaultedDeleting(r) =>
        \A k \in StoredNoteKeys \ {req[r].at} : ~PastRetention(bucket[k], req[r].t)

SweepRunning(r) ==
    req[r].pc \in {"sweepList", "sweepGet", "sweepListImages", "sweepDelete"}

SweepEnded(r) == req[r].pc = "done" /\ req[r].kind = "sweep"

\* C21: the sweep terminates, and a sweep that ran to its end has inspected
\* every object that was stored under notes/ during the whole sweep, over
\* any number of list pages.
C21_SweepInspectsAllAndEnds ==
    /\ [](\A r \in Slots : SweepOver(r) => StoredNoteKeys \subseteq req[r].inspected)
    /\ \A r \in Slots : SweepRunning(r) ~> SweepEnded(r)

\* a sweep has ended after more notes than one page of list holds
C21_Witness ==
    \E r \in Slots :
        /\ SweepOver(r)
        /\ Cardinality(req[r].inspected) > ListPage
        /\ Cardinality(StoredNoteKeys) > ListPage

\* C22: after a delete request for a note has completed successfully, no
\* image object is left under images/{hash}/ for that note.
C22_DeleteRemovesImages ==
    \A r \in Slots : Succeeded(r, "delete") => ImagesLeft(bucket, req[r].in.hash) = {}

\* the note of the body is stored
PublishedBody(body) ==
    /\ Has(bucket, PrimaryKey(body))
    /\ bucket[PrimaryKey(body)].vault = body.vault
    /\ bucket[PrimaryKey(body)].title = body.title

ViewedUrl(r) ==
    req[r].pc = "done" /\ req[r].kind = "view" /\ "url" \in DOMAIN req[r].in

\* C23: for every vault and title the link the plugin computes before any
\* request equals the url the server returns for the publish of that vault
\* and title, and a view of that link finds the published note.
C23_ClipboardUrlServed ==
    /\ \A r \in Slots : Succeeded(r, "share") =>
          req[r].resp.body.url = ClipboardUrl(req[r].in.vault, req[r].in.title)
    /\ \A r \in Slots, body \in UrlBodies :
          (/\ ViewedUrl(r)
           /\ req[r].in.url = ClipboardUrl(body.vault, body.title)
           /\ PublishedBody(body))
              => req[r].resp.status = 200

\* the first half alone
C23_SameUrl ==
    \A r \in Slots : Succeeded(r, "share") =>
        req[r].resp.body.url = ClipboardUrl(req[r].in.vault, req[r].in.title)

\* only a-z, 0-9 and single hyphens, and no hyphen at either end
SlugShaped(s) ==
    /\ \A i \in DOMAIN s : IsAlnum(s[i]) \/ s[i] = "-"
    /\ \A i \in DOMAIN s : s[i] = "-" => (i > 1 /\ i < Len(s) /\ s[i + 1] # "-")

\* C24: for every text x, slugify(slugify(x)) = slugify(x), and slugify(x)
\* holds only characters of a-z, 0-9 and single hyphens, with no hyphen at
\* its start or end.
C24_SlugifyIdempotent ==
    /\ Len(call.results) >= 1 => SlugShaped(call.results[1])
    /\ Len(call.results) = 2 => call.results[2] = call.results[1]

\* slugify was applied twice to a text with an upper-case letter and a run
\* of other characters in the middle and at an end
C24_Witness ==
    /\ Len(call.results) = 2
    /\ call.text \in {<<"B", "!", "-">>, <<"-", "!", "B">>}
    /\ call.results[2] = <<"b">>

(***************************************************************************)
(* Wikilinks, stated without the scan of processInternalLinks.             *)
(***************************************************************************)
\* the text between the brackets of m
Inner(m) == SubSeq(m, 3, Len(m) - 2)

Bars(s) == {i \in DOMAIN s : s[i] = "|"}

FirstBar(s) == CHOOSE i \in Bars(s) : \A j \in Bars(s) : i <= j

\* m is [[Target]] or [[Target|Display]]
IsWikilink(m) ==
    /\ Len(m) >= 5
    /\ m[1] = "[" /\ m[2] = "["
    /\ m[Len(m) - 1] = "]" /\ m[Len(m)] = "]"
    /\ \A i \in DOMAIN Inner(m) : Inner(m)[i] # "]"
    /\ Inner(m)[1] # "|"
    /\ Bars(Inner(m)) # {} => FirstBar(Inner(m)) < Len(Inner(m))

TargetOf(m) ==
    IF Bars(Inner(m)) = {} THEN Inner(m) ELSE SubSeq(Inner(m), 1, FirstBar(Inner(m)) - 1)

ShownOf(m) ==
    IF Bars(Inner(m)) = {} THEN Inner(m)
    ELSE SubSeq(Inner(m), FirstBar(Inner(m)) + 1, Len(Inner(m)))

LinksDone == "content" \in DOMAIN call /\ call.results # <<>>

\* the text a piece of the result stands for
PieceSource(p) == IF p.tag = "" THEN <<p.char>> ELSE p.match

\* the characters of the pieces a..b, all of them kept characters
KeptRun(out, a, b) == [i \in 1..(b - a + 1) |-> out[a + i - 1].char]

C25_WitnessUnresolved ==
    /\ LinksDone
    /\ \E i \in DOMAIN call.results[1] : call.results[1][i].tag = "span"

\* the publish in slot r was ended by a fault of the store or by a stop of
\* the Worker
Stopped(r) ==
    /\ req[r].pc = "done" /\ req[r].kind = "share"
    /\ Faulted(req[r]) \/ "crash" \in DOMAIN req[r]

\* every entry of the index of the vault has its note object, a note of the
\* vault
EntriesHaveNotes(vault) ==
    \A i \in DOMAIN IndexNotes(bucket, vault) :
        LET k == NoteKey(IndexNotes(bucket, vault)[i].titleSlug,
                         IndexNotes(bucket, vault)[i].hash)
        IN Has(bucket, k) /\ bucket[k].vault = vault

\* the view in slot r ends in this step
ViewEnds(r) ==
    /\ req[r].pc \in {"viewGet", "viewTheme"}
    /\ req'[r].pc = "done"

C27_AtMostMaxConcurrentExecuting ==
    runs.executing <= MAX_CONCURRENT

\* the permits taken are those the counter shows
C27_RunningCountsPermits ==
    sem.running = runs.acquired + runs.executing

\* the index of the vault of the publish holds an entry for the note of
\* this title
IndexedTitle(b, vault, title) ==
    EntriesFor(IndexNotes(b, vault), slugify(title), generateNoteHash(vault, title)) # {}

\* C28: when a publish with two or more linked notes completes
\* successfully and no other request runs, the index of its vault holds an
\* entry for the primary note and for every linked note of the request.
C28_LinkedNotesAllIndexed ==
    [][\A r \in Slots :
          (/\ req[r].pc = "mainIdxPut"
           /\ req'[r].pc = "done"
           /\ req'[r].resp.status = 200
           /\ Len(req[r].body.linkedNotes) >= 2
           /\ InFlight = {r}) =>
              /\ IndexedTitle(bucket', req[r].body.vault, req[r].body.title)
              /\ \A i \in DOMAIN req[r].body.linkedNotes :
                    IndexedTitle(bucket', req[r].body.vault,
                                 req[r].body.linkedNotes[i].title)]_vars

\* the POSTs of /api/share that are sent and not answered
InFlightPosts == {f \in fetches.open : f.state = "sent"}

\* C29: the plugin never has two POSTs of /api/share for the same
\* vault:title key in flight at the same time, calls of saveSettings
\* included: a shareNote for a key with a POST in flight sends nothing.
C29_OnePostPerKey ==
    \A f, g \in InFlightPosts : f.key = g.key => f = g

\* without a saveSettings in between, the POSTs in flight have different keys
C29_OnePostPerKeyAndObject ==
    \A f, g \in InFlightPosts : (f.key = g.key /\ f.api = g.api) => f = g

\* C30: after onunload has run no timer created by handleFileModify is
\* still set (periodic interval, first-sync timeout, idle timeout), and no
\* auto-sync is started any more.
C30_UnloadCancelsTimers ==
    ~plugin.loaded => (timers.set = {} /\ plugin.autoSyncsUnloaded = 0)

\* after onunload no interval and no idle timeout is set
C30_UnloadCancelsStoredTimers ==
    ~plugin.loaded => \A t \in timers.set : t.kind = "first"

\* C31: the document served for a view URL is immutable: two successful
\* views of the same URL are rendered from the same note content, whatever
\* was published in between.
C31_ViewImmutable ==
    \A a, b \in served : a.in = b.in => a.content = b.content

\* C32: a share of a note with linked notes always completes when every
\* read and upload completes: every task submitted to the shared
\* Semaphore, the uploads a linked-note task submits while it holds a
\* permit included, acquires a permit in the end and the linked notes are
\* collected.
C32_LinkedShareCompletes ==
    /\ tasks.started ~> tasks.completed
    /\ (tasks.queue # <<>>) ~> (tasks.queue = <<>>)

\* no state in which every permit is held by a linked-note task that
\* awaits an upload still in the queue
C32_NoHolderAwaitsQueued ==
    ~(/\ tasks.waiting = tasks.running
      /\ tasks.running > 0
      /\ tasks.reading = 0 /\ tasks.uploading = 0 /\ tasks.uploaded = 0
      /\ tasks.resolved = <<>>
      /\ tasks.queue # <<>>)

\* C33: after a note was unshared with the delete button of the sidebar,
\* a later modification of its file starts no auto-sync upload of it: no
\* timer set after the unshare calls autoSyncNote for the file.
C33_UnsharedNotSyncedAgain ==
    plugin.lateSyncs = {}

(***************************************************************************)
(* The uploads of one note by the plugin: the manual share and the         *)
(* auto-sync build different requests for the same note.                   *)
(***************************************************************************)
AutoDeleteDays == 1     \* settings.autoDeleteDays of the plugin
MaxRetainRequests == 4  \* requests received in one behaviour of SpecRetain

\* the request of shareNote for a note without linked notes (main.ts 324-329)
ShareNoteRequest(vault, title, content, autoDeleteDays) ==
    [vault |-> vault, title |-> title, content |-> content,
     retentionDays |-> autoDeleteDays]

\* the request of autoSyncNote (main.ts 208-212)
AutoSyncRequest(vault, title, content) ==
    [vault |-> vault, title |-> title, content |-> content]

\* the request as the handler reads it: body.linkedNotes || [] and
\* body.retentionDays || 0 (index.ts 121, 173)
ParsedBody(request) ==
    [vault |-> request.vault, title |-> request.title, content |-> request.content,
     linkedNotes |-> IF "linkedNotes" \in DOMAIN request THEN request.linkedNotes ELSE <<>>,
     retentionDays |-> IF "retentionDays" \in DOMAIN request THEN request.retentionDays ELSE 0]

RetainBodies ==
    {ParsedBody(ShareNoteRequest("v1", TitleB, "c1", AutoDeleteDays)),
     ParsedBody(AutoSyncRequest("v1", TitleB, "c2"))}

RetainLoad == Load(1, MaxRetainRequests, {API_KEY})

NextRetain ==
    \E r \in Slots :
        \/ ShareStart(r, RetainLoad, RetainBodies, TRUE)
        \/ MainGet(r, TRUE)
        \/ MainPut(r)
        \/ MainIdxGet(r)
        \/ MainIdxPut(r)

\* SpecRetain: manual shares and auto-syncs of one note, one after the other
SpecRetain == Init /\ [][NextRetain]_vars

\* C34: a note stored with retentionDays N > 0 (N the plugin's
\* autoDeleteDays) keeps retentionDays N after every later upload of it by
\* the plugin.
C34_RetentionKept ==
    [][\A key \in NoteKeysOf(bucket) :
          (/\ RetentionOf(bucket[key]) = AutoDeleteDays
           /\ key \in DOMAIN bucket')
          => RetentionOf(bucket'[key]) = AutoDeleteDays]_vars

\* request r stores its i-th linked note in this step (index.ts 137-140)
StoresLinked(r, i) ==
    /\ req[r].pc = "linkedStore"
    /\ i \in DOMAIN req[r].lk
    /\ req[r].lk[i].pc = "put"
    /\ req'[r].lk[i].pc = "idxGet"

\* C35: a publish of note A with B among its linked notes changes only
\* the title, the content and updatedAt of a record of B stored before: its
\* linkedNotes and its retentionDays stay as they were.
C35_LinkedPublishKeepsRecord ==
    [][\A r \in Slots, i \in LinkedPositions :
          LET key == NoteKey(req[r].lk[i].titleSlug, req[r].lk[i].hash)
          IN (StoresLinked(r, i) /\ key \in DOMAIN bucket) =>
                /\ bucket'[key].linkedNotes = bucket[key].linkedNotes
                /\ RetentionOf(bucket'[key]) = RetentionOf(bucket[key])]_vars

(***************************************************************************)
(* Sweeps and publishes of one note that run at the same time.             *)
(***************************************************************************)
MaxRaceRequests == 3    \* requests received in one behaviour of SpecSweepRace

RaceBodies == {Retained(Body("v1", TitleB, "c1", <<>>), 1)}

RaceLoad == Load(MaxInFlight, MaxRaceRequests, {API_KEY})

NextSweepRace ==
    \/ TimePasses
    \/ \E r \in Slots :
        \/ ShareStart(r, RaceLoad, RaceBodies, FALSE)
        \/ MainGet(r, FALSE)
        \/ MainPut(r)
        \/ MainIdxGet(r)
        \/ MainIdxPut(r)
        \/ SweepStart(r, RaceLoad)
        \/ SweepList(r)
        \/ SweepGet(r)
        \/ SweepListImages(r)
        \/ SweepDeleteNote(r)
        \/ SweepIdxGet(r)
        \/ SweepIdxPut(r)

\* SpecSweepRace: publishes of one note kept for one day and sweeps, two
\* requests at a time, while days pass
SpecSweepRace == Init /\ [][NextSweepRace]_vars

\* sweep r is at its delete of the note object key (index.ts 439)
SweepDeletes(r, key) ==
    /\ req[r].pc = "sweepDelete"
    /\ req[r].par.note = "delete"
    /\ Head(req[r].page) = key

\* C36: the sweep deletes a note object only if the record stored at the
\* moment of the delete is expired: a publish of the note that completed
\* after the sweep read the record is not destroyed.
C36_SweepDeletesOnlyExpired ==
    [][\A key \in NoteKeysOf(bucket) :
          key \notin DOMAIN bucket' =>
              \E r \in Slots : SweepDeletes(r, key) /\ Expired(bucket[key], req[r].t)]_vars

\* the note object a delete request names
DeletedKey(in) == NoteKey(in.titleSlug, in.hash)

\* C37: a delete request addressed to vault V removes a note object only
\* if the stored vault of the note is V: a request through another vault
\* leaves the note object and the index of the note's own vault as they were.
C37_DeleteOnlyInOwnVault ==
    \A r \in Slots :
        (/\ Succeeded(r, "delete")
         /\ Has(req[r].bucket0, DeletedKey(req[r].in))
         /\ req[r].bucket0[DeletedKey(req[r].in)].vault # req[r].in.vault) =>
            LET key == DeletedKey(req[r].in)
                vault == req[r].bucket0[key].vault
            IN /\ Has(bucket, key)
               /\ bucket[key] = req[r].bucket0[key]
               /\ IndexNotes(bucket, vault) = IndexNotes(req[r].bucket0, vault)

\* the delete request r ended with a storage fault after the delete of the
\* note object (index.ts 230) and before the write of the index (367)
FaultedBetweenSteps(r) ==
    /\ req[r].pc = "done"
    /\ req[r].kind = "delete"
    /\ "fault" \in DOMAIN req[r]
    /\ req[r].fault \in {"delIdxGet", "delIdxPut"}

\* C38: when a delete request fails with a storage fault between its two
\* steps, the delete of the note object and the removal of the index entry,
\* the index of the vault holds no entry whose note object is absent.
C38_FaultedDeleteLeavesNoDanglingEntry ==
    \A r \in Slots : FaultedBetweenSteps(r) => NoDanglingEntry(req[r].in.vault)

\* the timers of a kind set for a file
TimersOf(file, kind) == {t \in timers.set : t.file = file /\ t.kind = kind}

\* an idle timeout of the file is set that clears interval t when it fires
\* (main.ts 183-186)
ClearedByIdle(t) ==
    \E u \in TimersOf(t.file, "idle") :
        /\ plugin.path[u.file] \in DOMAIN timers.syncIntervals
        /\ timers.syncIntervals[plugin.path[u.file]] = t.id

\* C39: for every file at most one periodic interval and at most one idle
\* timeout are set, and every interval that is set has an idle timeout of
\* its file that clears it when the modifications stop, so that no interval
\* keeps firing for ever, also when the file is renamed while timers are set.
C39_OneIntervalClearedByIdle ==
    \A file \in Files :
        /\ Cardinality(TimersOf(file, "interval")) <= 1
        /\ Cardinality(TimersOf(file, "idle")) <= 1
        /\ \A t \in TimersOf(file, "interval") : ClearedByIdle(t)

\* at most one interval and one idle timeout are set for a file
C39_OneTimerOfAKind ==
    \A file \in Files :
        /\ Cardinality(TimersOf(file, "interval")) <= 1
        /\ Cardinality(TimersOf(file, "idle")) <= 1

\* every interval that is set is cleared by an idle timeout that is set
C39_IntervalsCleared ==
    \A file \in Files : \A t \in TimersOf(file, "interval") : ClearedByIdle(t)

(***************************************************************************)
(* The auto-syncs of one shared file (main.ts 195-222) from the timer to   *)
(* the stored note.  The content of the file is the number of its          *)
(* modifications; an auto-sync reads it, processes its images, and calls   *)
(* api.shareNote, which sends a POST or returns the promise of the POST in *)
(* flight for the key; the handler stores the content of a POST            *)
(* (index.ts 177) before it answers.                                       *)
(***************************************************************************)
MaxSyncModifies == 2    \* modifications of the file in one behaviour of SpecSync
MaxSyncTicks == 4       \* half delays that pass in one behaviour of SpecSync

SyncFile == "a.md"

\* the key of the requests of the file (api.ts 38)
SyncKey == ShareKey(AutoSyncRequest("v1", <<"a">>, 0))

offSyncApi == <<serverVars, call, semVars, fetches, timerVars, readerVars, shareVars>>

\* await this.app.vault.read(file) of an auto-sync a timer has started
\* (main.ts 198)
AutoSyncReads ==
    /\ sync.started < plugin.autoSyncs
    /\ sync' = [sync EXCEPT
                   !.started = @ + 1,
                   !.runs = @ \cup {[id |-> sync.started + 1, pc |-> "images",
                                     content |-> plugin.modifies, post |-> 0]}]
    /\ UNCHANGED offSync

\* processImages has returned and shareNote finds a promise for the key:
\* no POST is sent (main.ts 205-212, api.ts 41-45)
AutoSyncDeduplicated ==
    /\ SyncKey \in api.inFlightShares[api.current]
    /\ \E run \in sync.runs :
        /\ run.pc = "images"
        /\ LET existing == CHOOSE p \in sync.posts : p.api = api.current
           IN sync' = [sync EXCEPT
                          !.runs = (@ \ {run}) \cup
                                   {[run EXCEPT !.pc = "awaits", !.post = existing.id]}]
    /\ UNCHANGED offSync

\* processImages has returned and shareNote sends the POST with the content
\* the auto-sync read (main.ts 205-212, api.ts 48-58)
AutoSyncPosts ==
    /\ SyncKey \notin api.inFlightShares[api.current]
    /\ \E run \in sync.runs :
        /\ run.pc = "images"
        /\ sync' = [sync EXCEPT
                       !.runs = (@ \ {run}) \cup
                                {[run EXCEPT !.pc = "awaits", !.post = run.id]},
                       !.posts = @ \cup {[id |-> run.id, content |-> run.content,
                                          api |-> api.current, state |-> "sent"]}]
        /\ api' = InFlightSet(api, SyncKey)
    /\ UNCHANGED offSyncApi

\* the handler stores the note of a POST (index.ts 164-177)
PostStored ==
    /\ \E p \in sync.posts :
        /\ p.state = "sent"
        /\ sync' = [sync EXCEPT
                       !.posts = (@ \ {p}) \cup {[p EXCEPT !.state = "stored"]},
                       !.stored = p.content]
    /\ UNCHANGED offSync

\* the response arrives: the finally deletes the key from the map of the
\* object that sent the POST and the callers of shareNote resume
\* (api.ts 48-50)
PostAnswered ==
    /\ \E p \in sync.posts :
        /\ p.state = "stored"
        /\ sync' = [sync EXCEPT
                       !.posts = @ \ {p},
                       !.runs = {IF run.pc = "awaits" /\ run.post = p.id
                                 THEN [run EXCEPT !.pc = "answered"]
                                 ELSE run : run \in @}]
        /\ api' = [api EXCEPT !.inFlightShares[p.api] = @ \ {SyncKey}]
    /\ UNCHANGED offSyncApi

\* lastSynced is set and saveSettings makes a new NoteShareAPI
\* (main.ts 215-218, 612)
AutoSyncSaves ==
    /\ \E run \in sync.runs :
        /\ run.pc = "answered"
        /\ sync' = [sync EXCEPT !.runs = @ \ {run}]
        /\ api' = [inFlightShares |-> Append(api.inFlightShares, {}),
                   current |-> Len(api.inFlightShares) + 1]
    /\ UNCHANGED offSyncApi

\* a modification of the file, and half a delay passing, within the bounds
\* of SpecSync
SyncModify == plugin.modifies < MaxSyncModifies /\ HandleFileModify(SyncFile)

SyncTick == plugin.clock < MaxSyncTicks /\ Tick

NextSync ==
    \/ SyncModify
    \/ IntervalFires
    \/ FirstSyncFires
    \/ IdleFires
    \/ SyncTick
    \/ AutoSyncReads
    \/ AutoSyncDeduplicated
    \/ AutoSyncPosts
    \/ PostStored
    \/ PostAnswered
    \/ AutoSyncSaves

\* SpecSync: the modifications of one shared file, its timers and its
\* auto-syncs up to the stored note
SpecSync == Init /\ [][NextSync]_vars

\* no timer is set, every auto-sync a timer started has run to its end and
\* no POST is in flight
SyncsComplete ==
    /\ plugin.autoSyncs > 0
    /\ timers.set = {}
    /\ sync.started = plugin.autoSyncs
    /\ sync.runs = {}
    /\ sync.posts = {}

\* C40: once the modifications of a shared file have stopped and every
\* scheduled sync and every share request in flight has completed, the
\* content stored on the server is the final content of the file.
C40_FinalContentStored ==
    SyncsComplete => sync.stored = plugin.modifies

====
